---- MODULE Spec2Model ----
(***************************************************************************)
(* A model of codebox.  The workspace-token store                          *)
(* (src/src/workspaceTokens/workspaceTokenStore.ts): the in-memory map of  *)
(* open workspace tokens, the directories they work in, the clock that     *)
(* ages them, the idle sweep that closes them and the timer that drives    *)
(* the sweep.  The execution of commands in docker                         *)
(* (docker/execution.ts, in src/src/mcp/tools/execute.ts): the choice      *)
(* between a running container and an image, the running-check and the    *)
(* processes started.                                                      *)
(***************************************************************************)
EXTENDS Integers, Sequences, FiniteSets, TLC

(***************************************************************************)
(* Bounds of the model.                                                    *)
(***************************************************************************)
\* tokens uuidv4 generates in one behaviour
MaxTokens == 2
\* clock ticks in one behaviour
MaxTicks == 1
\* commands in one call of execute_batch_commands
MaxCommands == 2
\* HTTP sessions the server initializes
MaxHttp == 2
\* workspaces in a configuration that is saved
MaxEntries == 2
\* pieces a template is put together from
MaxPieces == 3
\* characters of a file path
MaxPathLen == 5

(***************************************************************************)
(* Program constants.                                                      *)
(***************************************************************************)
DEFAULT_IDLE_TIMEOUT == 600000

\* the clock advances in steps of five minutes
TickMs == 5 * 60 * 1000

Tokens == 1..MaxTokens

\* Directory paths: a host directory or a temporary directory under os.tmpdir()
HostPath(n) == <<"host", n>>
TempPath(n) == <<"tmp", n>>
NoPath == <<"none", 0>>

\* workspaceDir of the tests: a host directory that exists on disk
workspaceDir == HostPath(1)
\* a registered host directory that is not on disk
missingDir == HostPath(2)

(***************************************************************************)
(* The configuration file.  A descriptor is a function whose domain holds  *)
(* the fields that are set; an optional field that is unset is absent.     *)
(***************************************************************************)
TestConfig ==
  [projects |->
    << [name |-> "plain", path |-> workspaceDir, image |-> "dummy-image"],
       [name |-> "copy", path |-> workspaceDir, image |-> "dummy-image",
        copy |-> TRUE, idleTimeout |-> 300000],
       [name |-> "never", path |-> workspaceDir, image |-> "dummy-image",
        copy |-> FALSE, idleTimeout |-> 0],
       [name |-> "neg", path |-> workspaceDir, image |-> "dummy-image",
        idleTimeout |-> -1],
       [name |-> "gone", path |-> missingDir, image |-> "dummy-image",
        copy |-> TRUE, idleTimeout |-> 0] >>]

\* names a caller may pass to openWorkspace; "ghost" is not registered
WorkspaceNames == {"plain", "copy", "never", "neg", "gone", "ghost"}

VARIABLES
  configFile,   \* parsed content of ~/.codespin/codebox.json
  sessions,     \* activeWorkspaceTokens: token -> WorkspaceTokenInfo
  disk,         \* the directories that exist on disk
  issued,       \* how many tokens uuidv4 has generated
  clock,        \* Date.now()
  gone,         \* the tokens that were in the map and have left it
  last,         \* the last call: its operation, arguments and result
  touch,        \* the successful resolution that the last call was, or that
                \* the sweep that is the last call directly followed
  rmLog,        \* the removeDirectory calls closeWorkspace has made: for each
                \* directory the outcomes of the calls on it, in their order
  cleanupInterval, \* whether the timer of the idle cleanup is set
  containers,   \* the names of the containers docker reports as running
  procs,        \* the external processes the last executeDockerCommand
                \* started, in their order
  error,        \* the message of the Error the last executeDockerCommand
                \* threw (<<>>: none)
  response,     \* what the last tool handler returned to its caller
  written,      \* the files the last tool handler wrote, in their order
  batch,        \* the last call of execute_batch_commands: where it is,
                \* its arguments, its results and the commands it has
                \* started and seen end, in their order
  arg,          \* the arguments a function under test is applied to
  result,       \* what it returned
  http          \* the HTTP server: its transports and sessionActivity maps,
                \* its idle timeout, and who opened and who presents tokens

vars == <<configFile, sessions, disk, issued, clock, gone, last, touch, rmLog,
          cleanupInterval, containers, procs, error, response, written, batch,
          arg, result, http>>

\* the state of the tool handlers and of the functions under test
served == <<response, written, batch, arg, result, http>>

\* the state outside the workspace-token store: the timer and docker
outside == <<cleanupInterval, containers, procs, error>>

(***************************************************************************)
(* config/workspaceConfig.ts                                               *)
(***************************************************************************)
\* getConfig that reads the key saveConfig writes
getConfig_ReadsWorkspaces(file) ==
  LET workspaces == IF "workspaces" \in DOMAIN file THEN file.workspaces
                    ELSE <<>>
  IN IF "debug" \in DOMAIN file
     THEN [workspaces |-> workspaces, debug |-> file.debug]
     ELSE [workspaces |-> workspaces]

\* getConfig(): the configuration read from the file, its workspaces taken
\* from the key projects, and its debug flag; without a file, no workspaces
getConfig(file) ==
  LET workspaces == IF "projects" \in DOMAIN file THEN file.projects ELSE <<>>
  IN IF "debug" \in DOMAIN file
     THEN [workspaces |-> workspaces, debug |-> file.debug]
     ELSE [workspaces |-> workspaces]

\* saveConfig(config): the file it writes, JSON.stringify(config), which
\* holds the keys of the configuration, workspaces and debug if it is defined
saveConfig(config) == config

getWorkspaces(file) == getConfig(file).workspaces

\* workspaces.find(p => p.name === workspaceName) || null, as a set that is
\* empty (null) or holds the first match
getWorkspaceByName(file, workspaceName) ==
  LET ws == getWorkspaces(file)
      hits == {i \in DOMAIN ws : ws[i].name = workspaceName}
  IN IF hits = {} THEN {}
     ELSE {ws[CHOOSE i \in hits : \A j \in hits : i <= j]}

(***************************************************************************)
(* fs/dirUtils.ts                                                          *)
(***************************************************************************)
\* a temporary directory whose name is the same in every call
createTempDirectory_SameName(D, n, mkOk) ==
  IF mkOk THEN [disk |-> D \cup {TempPath(1)}, dir |-> TempPath(1), threw |-> FALSE]
  ELSE [disk |-> D, dir |-> NoPath, threw |-> TRUE]

\* allocates a uniquely named directory, the n-th of the behaviour; mkOk =
\* FALSE is an mkdir failure
createTempDirectory(D, n, mkOk) ==
  IF mkOk THEN [disk |-> D \cup {TempPath(n)}, dir |-> TempPath(n), threw |-> FALSE]
  ELSE [disk |-> D, dir |-> NoPath, threw |-> TRUE]

\* a copy that leaves the half-populated destination behind when it fails
copyDirectory_LeavesTarget(D, source, target, cpOk) ==
  IF source \in D /\ cpOk THEN [disk |-> D, threw |-> FALSE]
  ELSE [disk |-> D, threw |-> TRUE]

\* copies the source tree; when the copy cannot complete the destination is
\* removed before the error propagates
copyDirectory(D, source, target, cpOk) ==
  IF source \in D /\ cpOk THEN [disk |-> D, threw |-> FALSE]
  ELSE [disk |-> D \ {target}, threw |-> TRUE]

\* recursive delete; rmOk = FALSE is a deletion failure (the directory stays)
removeDirectory(D, dirPath, rmOk) ==
  IF rmOk THEN [disk |-> D \ {dirPath}, threw |-> FALSE]
  ELSE [disk |-> D, threw |-> TRUE]

(***************************************************************************)
(* workspaceTokens/workspaceTokenStore.ts                                  *)
(***************************************************************************)
\* a delete that removes no key
DeleteKey_Noop(S, workspaceToken) == S

\* the map without one key: delete activeWorkspaceTokens[workspaceToken]
DeleteKey(S, workspaceToken) ==
  [t \in DOMAIN S \ {workspaceToken} |-> S[t]]

\* the map with one key added or overwritten
PutKey(S, workspaceToken, info) ==
  [t \in DOMAIN S \cup {workspaceToken} |->
     IF t = workspaceToken THEN info ELSE S[t]]

\* an access-time update that also sets the idle timeout back to the default
updateWorkspaceTokenAccessTime_ResetsTimeout(S, workspaceToken, dateNow) ==
  IF workspaceToken \in DOMAIN S
  THEN [S EXCEPT ![workspaceToken].lastAccessTime = dateNow,
                 ![workspaceToken].idleTimeout = DEFAULT_IDLE_TIMEOUT]
  ELSE S

\* an access-time update that stores nothing
updateWorkspaceTokenAccessTime_NoUpdate(S, workspaceToken, dateNow) == S

\* updateWorkspaceTokenAccessTime: the map after the touch
updateWorkspaceTokenAccessTime(S, workspaceToken, dateNow) ==
  IF workspaceToken \in DOMAIN S
  THEN [S EXCEPT ![workspaceToken].lastAccessTime = dateNow]
  ELSE S

\* a lookup that counts a miss as activity on the store: it refreshes every
\* session
Lookup_MissTouchesAll(S, workspaceToken, dateNow) ==
  IF workspaceToken \in DOMAIN S
  THEN [found |-> TRUE,
        sessions |-> updateWorkspaceTokenAccessTime(S, workspaceToken, dateNow)]
  ELSE [found |-> FALSE,
        sessions |-> [t \in DOMAIN S |-> [S[t] EXCEPT !.lastAccessTime = dateNow]]]

\* a lookup that finds the token and does not touch it
Lookup_NoTouch(S, workspaceToken, dateNow) ==
  [found |-> workspaceToken \in DOMAIN S, sessions |-> S]

\* the body the resolvers share: if the token is in the map, touch it
Lookup(S, workspaceToken, dateNow) ==
  IF workspaceToken \in DOMAIN S
  THEN [found |-> TRUE,
        sessions |-> updateWorkspaceTokenAccessTime(S, workspaceToken, dateNow)]
  ELSE [found |-> FALSE, sessions |-> S]

\* closeWorkspace that removes the record first and the directory after it
closeWorkspace_RecordFirst(S, D, workspaceToken, rmOk) ==
  IF workspaceToken \in DOMAIN S
  THEN LET workspaceTokenInfo == S[workspaceToken]
           cleanup == workspaceTokenInfo.isTempDir
                      /\ workspaceTokenInfo.workingDir \in D
           rm == removeDirectory(D, workspaceTokenInfo.workingDir, rmOk)
       IN [sessions |-> DeleteKey(S, workspaceToken),
           disk |-> IF cleanup THEN rm.disk ELSE D,
           ret |-> TRUE,
           threw |-> FALSE,
           dir |-> workspaceTokenInfo.workingDir,
           steps |-> <<"deleteRecord">>
                     \o (IF cleanup THEN <<"removeDirectory">> ELSE <<>>)]
  ELSE [sessions |-> S, disk |-> D, ret |-> FALSE, threw |-> FALSE,
        dir |-> NoPath, steps |-> <<>>]

\* closeWorkspace without the try/catch around removeDirectory: a deletion
\* failure propagates and the record is never deleted
closeWorkspace_NoCatch(S, D, workspaceToken, rmOk) ==
  IF workspaceToken \in DOMAIN S
  THEN LET workspaceTokenInfo == S[workspaceToken]
           cleanup == workspaceTokenInfo.isTempDir
                      /\ workspaceTokenInfo.workingDir \in D
           rm == removeDirectory(D, workspaceTokenInfo.workingDir, rmOk)
       IN IF cleanup /\ rm.threw
          THEN [sessions |-> S, disk |-> rm.disk, ret |-> TRUE, threw |-> TRUE,
                dir |-> workspaceTokenInfo.workingDir,
                steps |-> <<"removeDirectory">>]
          ELSE [sessions |-> DeleteKey(S, workspaceToken),
                disk |-> IF cleanup THEN rm.disk ELSE D,
                ret |-> TRUE,
                threw |-> FALSE,
                dir |-> workspaceTokenInfo.workingDir,
                steps |-> (IF cleanup THEN <<"removeDirectory">> ELSE <<>>)
                          \o <<"deleteRecord">>]
  ELSE [sessions |-> S, disk |-> D, ret |-> FALSE, threw |-> FALSE,
        dir |-> NoPath, steps |-> <<>>]

\* closeWorkspace that reports true also for a token that is not in the map
closeWorkspace_AlwaysTrue(S, D, workspaceToken, rmOk) ==
  IF workspaceToken \in DOMAIN S
  THEN LET workspaceTokenInfo == S[workspaceToken]
           cleanup == workspaceTokenInfo.isTempDir
                      /\ workspaceTokenInfo.workingDir \in D
           rm == removeDirectory(D, workspaceTokenInfo.workingDir, rmOk)
       IN [sessions |-> DeleteKey(S, workspaceToken),
           disk |-> IF cleanup THEN rm.disk ELSE D,
           ret |-> TRUE,
           threw |-> FALSE,
           dir |-> workspaceTokenInfo.workingDir,
           steps |-> (IF cleanup THEN <<"removeDirectory">> ELSE <<>>)
                     \o <<"deleteRecord">>]
  ELSE [sessions |-> S, disk |-> D, ret |-> TRUE, threw |-> FALSE,
        dir |-> NoPath, steps |-> <<>>]

\* closeWorkspace that deletes the working directory without looking at
\* isTempDir
closeWorkspace_NoTempCheck(S, D, workspaceToken, rmOk) ==
  IF workspaceToken \in DOMAIN S
  THEN LET workspaceTokenInfo == S[workspaceToken]
           cleanup == workspaceTokenInfo.workingDir \in D
           rm == removeDirectory(D, workspaceTokenInfo.workingDir, rmOk)
       IN [sessions |-> DeleteKey(S, workspaceToken),
           disk |-> IF cleanup THEN rm.disk ELSE D,
           ret |-> TRUE,
           threw |-> FALSE,
           dir |-> workspaceTokenInfo.workingDir,
           steps |-> (IF cleanup THEN <<"removeDirectory">> ELSE <<>>)
                     \o <<"deleteRecord">>]
  ELSE [sessions |-> S, disk |-> D, ret |-> FALSE, threw |-> FALSE,
        dir |-> NoPath, steps |-> <<>>]

\* closeWorkspace: the map, the disk, the result, the working directory of
\* the closed session and the order of the steps taken
closeWorkspace(S, D, workspaceToken, rmOk) ==
  IF workspaceToken \in DOMAIN S
  THEN LET workspaceTokenInfo == S[workspaceToken]
           cleanup == workspaceTokenInfo.isTempDir
                      /\ workspaceTokenInfo.workingDir \in D
           rm == removeDirectory(D, workspaceTokenInfo.workingDir, rmOk)
       IN [sessions |-> DeleteKey(S, workspaceToken),
           disk |-> IF cleanup THEN rm.disk ELSE D,
           ret |-> TRUE,
           threw |-> FALSE,
           dir |-> workspaceTokenInfo.workingDir,
           steps |-> (IF cleanup THEN <<"removeDirectory">> ELSE <<>>)
                     \o <<"deleteRecord">>]
  ELSE [sessions |-> S, disk |-> D, ret |-> FALSE, threw |-> FALSE,
        dir |-> NoPath, steps |-> <<>>]

\* the idle test without the skip of idleTimeout = 0
IsIdle_NoZeroSkip(info, currentTime) ==
  currentTime - info.lastAccessTime >= info.idleTimeout

\* the test of the first loop of checkAndCloseIdleWorkspaces
IsIdle(info, currentTime) ==
  /\ info.idleTimeout # 0
  /\ currentTime - info.lastAccessTime >= info.idleTimeout

\* the tokens of a set in the order Object.entries lists them (insertion
\* order, which is the order of issue)
InOrder(T) ==
  CHOOSE q \in [1..Cardinality(T) -> T] :
    \A i \in DOMAIN q : \A j \in DOMAIN q : i < j => q[i] < q[j]

\* the removeDirectory call that the closeWorkspace with result c made, with
\* its outcome
RmAttempts(c, rmOk) ==
  IF \E i \in DOMAIN c.steps : c.steps[i] = "removeDirectory"
  THEN <<[dir |-> c.dir, ok |-> rmOk]>>
  ELSE <<>>

\* the outcomes of the removeDirectory calls made on directory d so far
CallsOn(log, d) == IF d \in DOMAIN log THEN log[d] ELSE <<>>

\* the log of removeDirectory calls with the attempts appended
Logged(log, attempts) ==
  [d \in DOMAIN log \cup {attempts[i].dir : i \in DOMAIN attempts} |->
     CallsOn(log, d) \o
       LET on == SelectSeq(attempts, LAMBDA a : a.dir = d)
       IN [i \in DOMAIN on |-> on[i].ok]]

\* the second loop of checkAndCloseIdleWorkspaces; removed lists the
\* removeDirectory calls its closeWorkspace calls made.  c is the result of
\* the closeWorkspace on the first token and rest that of the loop on the
\* others; each is bound as the element of a one-element set, so that it is
\* computed once.
RECURSIVE CloseAll(_, _, _, _)
CloseAll(S, D, toClose, rmOk) ==
  IF toClose = <<>> THEN [sessions |-> S, disk |-> D, removed |-> <<>>]
  ELSE CHOOSE r \in UNION {
         {[sessions |-> rest.sessions, disk |-> rest.disk,
           removed |-> RmAttempts(c, rmOk[Head(toClose)]) \o rest.removed] :
            rest \in {CloseAll(c.sessions, c.disk, Tail(toClose), rmOk)}} :
         c \in {closeWorkspace(S, D, Head(toClose), rmOk[Head(toClose)])}} : TRUE

\* a sweep that collects the idle tokens and closes none of them
checkAndCloseIdleWorkspaces_CollectOnly(S, D, currentTime, rmOk) ==
  [sessions |-> S, disk |-> D,
   ret |-> InOrder({t \in DOMAIN S : IsIdle(S[t], currentTime)}),
   removed |-> <<>>]

\* checkAndCloseIdleWorkspaces: the map and the disk after the sweep, the
\* tokens it returns and the removeDirectory calls it made
checkAndCloseIdleWorkspaces(S, D, currentTime, rmOk) ==
  LET tokensToClose == InOrder({t \in DOMAIN S : IsIdle(S[t], currentTime)})
      c == CloseAll(S, D, tokensToClose, rmOk)
  IN [sessions |-> c.sessions, disk |-> c.disk, ret |-> tokensToClose,
      removed |-> c.removed]

\* workspace.copy is truthy
CopyEnabled(workspace) == "copy" \in DOMAIN workspace /\ workspace.copy

\* a token record that never marks the working directory as temporary
NewTokenInfo_NeverTemp(workspaceName, workspace, workingDir, isTempDir, dateNow) ==
  [workspaceName |-> workspaceName,
   workingDir |-> workingDir,
   isTempDir |-> FALSE,
   lastAccessTime |-> dateNow,
   idleTimeout |-> IF "idleTimeout" \in DOMAIN workspace
                   THEN workspace.idleTimeout
                   ELSE DEFAULT_IDLE_TIMEOUT]

\* a token record whose idleTimeout is workspace.idleTimeout ||
\* DEFAULT_IDLE_TIMEOUT, so that 0 becomes the default
NewTokenInfo_ZeroIsDefault(workspaceName, workspace, workingDir, isTempDir, dateNow) ==
  [workspaceName |-> workspaceName,
   workingDir |-> workingDir,
   isTempDir |-> isTempDir,
   lastAccessTime |-> dateNow,
   idleTimeout |-> IF "idleTimeout" \in DOMAIN workspace
                      /\ workspace.idleTimeout # 0
                   THEN workspace.idleTimeout
                   ELSE DEFAULT_IDLE_TIMEOUT]

\* the WorkspaceTokenInfo openWorkspace stores
NewTokenInfo(workspaceName, workspace, workingDir, isTempDir, dateNow) ==
  [workspaceName |-> workspaceName,
   workingDir |-> workingDir,
   isTempDir |-> isTempDir,
   lastAccessTime |-> dateNow,
   idleTimeout |-> IF "idleTimeout" \in DOMAIN workspace
                   THEN workspace.idleTimeout
                   ELSE DEFAULT_IDLE_TIMEOUT]

\* openWorkspace that stores the record before it copies and leaves it there
\* when the copy throws
openWorkspace_RegisterBeforeCopy(file, S, D, tokN, workspaceName, mkOk, cpOk, dateNow) ==
  LET found == getWorkspaceByName(file, workspaceName)
  IN IF found = {}
     THEN [sessions |-> S, disk |-> D, issued |-> tokN, ok |-> FALSE,
           token |-> 0, dir |-> NoPath, steps |-> <<>>]
     ELSE
       LET workspace == CHOOSE w \in found : TRUE
           workspaceToken == tokN + 1
           mk == createTempDirectory(D, workspaceToken, mkOk)
           cp == copyDirectory(mk.disk, workspace.path, mk.dir, cpOk)
           early == PutKey(S, workspaceToken,
                      NewTokenInfo(workspaceName, workspace, workspace.path,
                                   FALSE, dateNow))
       IN IF ~CopyEnabled(workspace)
          THEN [sessions |-> early, disk |-> D, issued |-> workspaceToken,
                ok |-> TRUE, token |-> workspaceToken, dir |-> workspace.path,
                steps |-> <<"register">>]
          ELSE IF mk.threw
          THEN [sessions |-> early, disk |-> mk.disk,
                issued |-> workspaceToken, ok |-> FALSE, token |-> 0,
                dir |-> NoPath,
                steps |-> <<"register", "createTempDirectory">>]
          ELSE IF cp.threw
          THEN [sessions |-> early, disk |-> cp.disk,
                issued |-> workspaceToken, ok |-> FALSE, token |-> 0,
                dir |-> mk.dir,
                steps |-> <<"register", "createTempDirectory", "copyDirectory">>]
          ELSE [sessions |-> PutKey(S, workspaceToken,
                               NewTokenInfo(workspaceName, workspace, mk.dir,
                                            TRUE, dateNow)),
                disk |-> cp.disk, issued |-> workspaceToken, ok |-> TRUE,
                token |-> workspaceToken, dir |-> mk.dir,
                steps |-> <<"register", "createTempDirectory", "copyDirectory">>]

\* openWorkspace whose token is not generated afresh: every call uses the
\* same one
openWorkspace_SameToken(file, S, D, tokN, workspaceName, mkOk, cpOk, dateNow) ==
  LET found == getWorkspaceByName(file, workspaceName)
  IN IF found = {}
     THEN [sessions |-> S, disk |-> D, issued |-> tokN, ok |-> FALSE,
           token |-> 0, dir |-> NoPath, steps |-> <<>>]
     ELSE
       LET workspace == CHOOSE w \in found : TRUE
           workspaceToken == 1
           mk == createTempDirectory(D, tokN + 1, mkOk)
           cp == copyDirectory(mk.disk, workspace.path, mk.dir, cpOk)
       IN IF ~CopyEnabled(workspace)
          THEN [sessions |-> PutKey(S, workspaceToken,
                               NewTokenInfo(workspaceName, workspace,
                                            workspace.path, FALSE, dateNow)),
                disk |-> D, issued |-> tokN + 1, ok |-> TRUE,
                token |-> workspaceToken, dir |-> workspace.path,
                steps |-> <<"register">>]
          ELSE IF mk.threw
          THEN [sessions |-> S, disk |-> mk.disk, issued |-> tokN + 1,
                ok |-> FALSE, token |-> 0, dir |-> NoPath,
                steps |-> <<"createTempDirectory">>]
          ELSE IF cp.threw
          THEN [sessions |-> S, disk |-> cp.disk, issued |-> tokN + 1,
                ok |-> FALSE, token |-> 0, dir |-> mk.dir,
                steps |-> <<"createTempDirectory", "copyDirectory">>]
          ELSE [sessions |-> PutKey(S, workspaceToken,
                               NewTokenInfo(workspaceName, workspace, mk.dir,
                                            TRUE, dateNow)),
                disk |-> cp.disk, issued |-> tokN + 1, ok |-> TRUE,
                token |-> workspaceToken, dir |-> mk.dir,
                steps |-> <<"createTempDirectory", "copyDirectory", "register">>]

\* openWorkspace: the map, the disk, the count of generated tokens, the
\* result (ok = a token was returned), the directory the call made or used
\* and the steps taken.  tokN tokens were generated before the call; mkOk
\* and cpOk are the outcomes of making the temporary directory and of
\* copying into it.
openWorkspace(file, S, D, tokN, workspaceName, mkOk, cpOk, dateNow) ==
  LET found == getWorkspaceByName(file, workspaceName)
  IN IF found = {}
     THEN [sessions |-> S, disk |-> D, issued |-> tokN, ok |-> FALSE,
           token |-> 0, dir |-> NoPath, steps |-> <<>>]
     ELSE
       LET workspace == CHOOSE w \in found : TRUE
           workspaceToken == tokN + 1
           mk == createTempDirectory(D, workspaceToken, mkOk)
           cp == copyDirectory(mk.disk, workspace.path, mk.dir, cpOk)
       IN IF ~CopyEnabled(workspace)
          THEN [sessions |-> PutKey(S, workspaceToken,
                               NewTokenInfo(workspaceName, workspace,
                                            workspace.path, FALSE, dateNow)),
                disk |-> D, issued |-> workspaceToken, ok |-> TRUE,
                token |-> workspaceToken, dir |-> workspace.path,
                steps |-> <<"register">>]
          ELSE IF mk.threw
          THEN [sessions |-> S, disk |-> mk.disk, issued |-> workspaceToken,
                ok |-> FALSE, token |-> 0, dir |-> NoPath,
                steps |-> <<"createTempDirectory">>]
          ELSE IF cp.threw
          THEN [sessions |-> S, disk |-> cp.disk, issued |-> workspaceToken,
                ok |-> FALSE, token |-> 0, dir |-> mk.dir,
                steps |-> <<"createTempDirectory", "copyDirectory">>]
          ELSE [sessions |-> PutKey(S, workspaceToken,
                               NewTokenInfo(workspaceName, workspace, mk.dir,
                                            TRUE, dateNow)),
                disk |-> cp.disk, issued |-> workspaceToken, ok |-> TRUE,
                token |-> workspaceToken, dir |-> mk.dir,
                steps |-> <<"createTempDirectory", "copyDirectory", "register">>]

(***************************************************************************)
(* docker/execution.ts (in src/src/mcp/tools/execute.ts from line 63)      *)
(***************************************************************************)
\* the configuration the execution is checked with: a workspace that
\* attaches to a container, one that attaches with a containerPath of its
\* own, one that launches an image, one with both and one with neither
ExecConfig ==
  [projects |->
    << [name |-> "attach", path |-> workspaceDir, containerName |-> "c1"],
       [name |-> "attachApp", path |-> workspaceDir, containerName |-> "c2",
        containerPath |-> "/app"],
       [name |-> "launch", path |-> workspaceDir, image |-> "img",
        network |-> "net"],
       [name |-> "both", path |-> workspaceDir, containerName |-> "c1",
        image |-> "img"],
       [name |-> "bare", path |-> workspaceDir] >>]

\* names a caller may pass to executeDockerCommand; "ghost" is not registered
ExecNames == {"attach", "attachApp", "launch", "both", "bare", "ghost"}

\* the containers docker may run
ContainerNames == {"c1", "c2"}

\* command texts, as the sequence of their pieces: a piece is a double quote
\* or a piece of other text
Commands == {<<"ls">>, <<"echo ", "\"", "hi", "\"">>}

\* the working directories a caller passes
HostDirs == {workspaceDir, TempPath(1)}

\* workspace[field] is truthy: set, and not the empty string
Truthy(workspace, field) ==
  field \in DOMAIN workspace /\ workspace[field] # ""

\* an optional field, or the default of the parameter it is passed for
OrDefault(workspace, field, default) ==
  IF field \in DOMAIN workspace THEN workspace[field] ELSE default

\* command.replace(/"/g, '\\"')
EscapeQuotes(command) ==
  [i \in DOMAIN command |->
     IF command[i] = "\"" THEN "\\\"" ELSE command[i]]

\* how a process ends: it succeeds, it fails after it wrote part of its
\* output to both streams, or it fails with nothing on standard error
RunOutcomes == {"ok", "failed", "failedQuietly"}

\* what a process that ended as ran wrote before it ended
Captured(ran) ==
  [stdout |-> IF ran = "ok" THEN "out" ELSE "partial out",
   stderr |-> IF ran = "failed" THEN "err" ELSE ""]

\* the process of a command line, with how it ended and what it wrote
Process(dockerCommand, ran) ==
  dockerCommand @@ [failed |-> ran # "ok",
                    stdout |-> Captured(ran).stdout,
                    stderr |-> Captured(ran).stderr]

\* execAsync(dockerCommand): starts the process and waits for it; a process
\* that fails rejects with an Error that carries the captured output
execAsync(dockerCommand, ran) ==
  IF ran = "ok"
  THEN [procs |-> <<Process(dockerCommand, ran)>>, threw |-> FALSE,
        message |-> <<>>,
        stdout |-> Captured(ran).stdout, stderr |-> Captured(ran).stderr]
  ELSE [procs |-> <<Process(dockerCommand, ran)>>, threw |-> TRUE,
        message |-> <<"Command failed", dockerCommand.prog>>,
        stdout |-> Captured(ran).stdout, stderr |-> Captured(ran).stderr]

\* a running-check that takes a failure of the check for a running container
checkContainerRunning_TrueOnError(running, containerName, psOk) ==
  [procs |-> <<[prog |-> "docker ps", filter |-> containerName,
                failed |-> ~psOk,
                stdout |-> IF psOk /\ containerName \in running
                           THEN <<containerName>> ELSE <<>>]>>,
   ret |-> ~psOk \/ containerName \in running]

\* checkContainerRunning: docker ps -q -f name=^containerName$; psOk = FALSE
\* is a docker ps that fails
checkContainerRunning(running, containerName, psOk) ==
  [procs |-> <<[prog |-> "docker ps", filter |-> containerName,
                failed |-> ~psOk,
                stdout |-> IF psOk /\ containerName \in running
                           THEN <<containerName>> ELSE <<>>]>>,
   ret |-> psOk /\ containerName \in running]

\* the command line of docker exec: the template it is rendered from and the
\* values of the template's variables
ExecCommandLine(containerName, command, workdir, execTemplate) ==
  [prog |-> "docker exec",
   template |-> execTemplate,
   containerName |-> containerName,
   containerPath |-> workdir,
   command |-> EscapeQuotes(command),
   user |-> <<"uid", "gid">>]

\* the command line of docker run
RunCommandLine(image, path, command, containerPath, network, runTemplate) ==
  [prog |-> "docker run",
   template |-> runTemplate,
   image |-> image,
   path |-> path,
   containerPath |-> containerPath,
   command |-> EscapeQuotes(command),
   network |-> network,
   user |-> <<"uid", "gid">>]

\* executeInExistingContainer
executeInExistingContainer(running, containerName, command, workdir, execTemplate, psOk, ran) ==
  LET check == checkContainerRunning(running, containerName, psOk)
      run == execAsync(ExecCommandLine(containerName, command, workdir,
                                       execTemplate), ran)
  IN IF ~check.ret
     THEN [procs |-> check.procs, threw |-> TRUE,
           message |-> <<"Container not found or not running", containerName>>,
           stdout |-> "", stderr |-> ""]
     ELSE [procs |-> check.procs \o run.procs, threw |-> run.threw,
           message |-> run.message, stdout |-> run.stdout,
           stderr |-> run.stderr]

\* executeWithDockerImage
executeWithDockerImage(image, path, command, containerPath, network, runTemplate, ran) ==
  execAsync(RunCommandLine(image, path, command, containerPath, network,
                           runTemplate), ran)

\* executeDockerCommand that runs a workspace with neither a container nor
\* an image as one with an image
executeDockerCommand_NoElse(file, running, workspaceName, command, hostDir, psOk, ran) ==
  LET found == getWorkspaceByName(file, workspaceName)
  IN IF found = {}
     THEN [ok |-> FALSE, procs |-> <<>>,
           error |-> <<"Workspace not registered", workspaceName>>,
           stdout |-> "", stderr |-> ""]
     ELSE
       LET workspace == CHOOSE w \in found : TRUE
           r == IF Truthy(workspace, "containerName")
                THEN executeInExistingContainer(
                       running, workspace.containerName, command,
                       OrDefault(workspace, "containerPath", "/workspace"),
                       OrDefault(workspace, "execTemplate", "default"),
                       psOk, ran)
                ELSE executeWithDockerImage(
                       OrDefault(workspace, "image", "undefined"), hostDir,
                       command,
                       OrDefault(workspace, "containerPath", "/workspace"),
                       OrDefault(workspace, "network", ""),
                       OrDefault(workspace, "runTemplate", "default"),
                       ran)
       IN IF r.threw
          THEN [ok |-> FALSE, procs |-> r.procs,
                error |-> <<"Docker execution failed", r.message, r.stdout,
                            r.stderr>>,
                stdout |-> "", stderr |-> ""]
          ELSE [ok |-> TRUE, procs |-> r.procs, error |-> <<>>,
                stdout |-> r.stdout, stderr |-> r.stderr]

\* executeDockerCommand that reports a failure by its message alone and
\* drops the output the process wrote
executeDockerCommand_DropsOutput(file, running, workspaceName, command, hostDir, psOk, ran) ==
  LET found == getWorkspaceByName(file, workspaceName)
  IN IF found = {}
     THEN [ok |-> FALSE, procs |-> <<>>,
           error |-> <<"Workspace not registered", workspaceName>>,
           stdout |-> "", stderr |-> ""]
     ELSE
       LET workspace == CHOOSE w \in found : TRUE
           r == IF Truthy(workspace, "containerName")
                THEN executeInExistingContainer(
                       running, workspace.containerName, command,
                       OrDefault(workspace, "containerPath", "/workspace"),
                       OrDefault(workspace, "execTemplate", "default"),
                       psOk, ran)
                ELSE IF Truthy(workspace, "image")
                THEN executeWithDockerImage(
                       workspace.image, hostDir, command,
                       OrDefault(workspace, "containerPath", "/workspace"),
                       OrDefault(workspace, "network", ""),
                       OrDefault(workspace, "runTemplate", "default"),
                       ran)
                ELSE [procs |-> <<>>, threw |-> TRUE,
                      message |-> <<"No Docker image or container configured for this workspace">>,
                      stdout |-> "", stderr |-> ""]
       IN IF r.threw
          THEN [ok |-> FALSE, procs |-> r.procs,
                error |-> <<"Docker execution failed", r.message, "", "">>,
                stdout |-> "", stderr |-> ""]
          ELSE [ok |-> TRUE, procs |-> r.procs, error |-> <<>>,
                stdout |-> r.stdout, stderr |-> r.stderr]

\* executeDockerCommand that mounts the registered host path of the workspace
\* and not the directory it is passed
executeDockerCommand_MountsHostPath(file, running, workspaceName, command, hostDir, psOk, ran) ==
  LET found == getWorkspaceByName(file, workspaceName)
  IN IF found = {}
     THEN [ok |-> FALSE, procs |-> <<>>,
           error |-> <<"Workspace not registered", workspaceName>>,
           stdout |-> "", stderr |-> ""]
     ELSE
       LET workspace == CHOOSE w \in found : TRUE
           r == IF Truthy(workspace, "containerName")
                THEN executeInExistingContainer(
                       running, workspace.containerName, command,
                       OrDefault(workspace, "containerPath", "/workspace"),
                       OrDefault(workspace, "execTemplate", "default"),
                       psOk, ran)
                ELSE IF Truthy(workspace, "image")
                THEN executeWithDockerImage(
                       workspace.image, workspace.path, command,
                       OrDefault(workspace, "containerPath", "/workspace"),
                       OrDefault(workspace, "network", ""),
                       OrDefault(workspace, "runTemplate", "default"),
                       ran)
                ELSE [procs |-> <<>>, threw |-> TRUE,
                      message |-> <<"No Docker image or container configured for this workspace">>,
                      stdout |-> "", stderr |-> ""]
       IN IF r.threw
          THEN [ok |-> FALSE, procs |-> r.procs,
                error |-> <<"Docker execution failed", r.message, r.stdout,
                            r.stderr>>,
                stdout |-> "", stderr |-> ""]
          ELSE [ok |-> TRUE, procs |-> r.procs, error |-> <<>>,
                stdout |-> r.stdout, stderr |-> r.stderr]

\* executeDockerCommand: whether it returned, the output it returned, the
\* external processes it started and the message of the Error it threw.  An
\* Error thrown in the try block is thrown again with its message and the
\* captured output.
executeDockerCommand(file, running, workspaceName, command, hostDir, psOk, ran) ==
  LET found == getWorkspaceByName(file, workspaceName)
  IN IF found = {}
     THEN [ok |-> FALSE, procs |-> <<>>,
           error |-> <<"Workspace not registered", workspaceName>>,
           stdout |-> "", stderr |-> ""]
     ELSE
       LET workspace == CHOOSE w \in found : TRUE
           r == IF Truthy(workspace, "containerName")
                THEN executeInExistingContainer(
                       running, workspace.containerName, command,
                       OrDefault(workspace, "containerPath", "/workspace"),
                       OrDefault(workspace, "execTemplate", "default"),
                       psOk, ran)
                ELSE IF Truthy(workspace, "image")
                THEN executeWithDockerImage(
                       workspace.image, hostDir, command,
                       OrDefault(workspace, "containerPath", "/workspace"),
                       OrDefault(workspace, "network", ""),
                       OrDefault(workspace, "runTemplate", "default"),
                       ran)
                ELSE [procs |-> <<>>, threw |-> TRUE,
                      message |-> <<"No Docker image or container configured for this workspace">>,
                      stdout |-> "", stderr |-> ""]
       IN IF r.threw
          THEN [ok |-> FALSE, procs |-> r.procs,
                error |-> <<"Docker execution failed", r.message, r.stdout,
                            r.stderr>>,
                stdout |-> "", stderr |-> ""]
          ELSE [ok |-> TRUE, procs |-> r.procs, error |-> <<>>,
                stdout |-> r.stdout, stderr |-> r.stderr]

(***************************************************************************)
(* fs/pathValidation.ts, with the functions of path (POSIX) it calls.  A   *)
(* path is a text, the sequence of its characters.                         *)
(***************************************************************************)
\* path.sep
sep == "/"

\* path.isAbsolute(p)
isAbsolute(p) == Len(p) > 0 /\ p[1] = sep

\* the segments of a path: the texts between its separators; cur is the
\* segment read so far
RECURSIVE Segments(_, _)
Segments(p, cur) ==
  IF p = <<>> THEN <<cur>>
  ELSE IF Head(p) = sep THEN <<cur>> \o Segments(Tail(p), <<>>)
  ELSE Segments(Tail(p), Append(cur, Head(p)))

\* normalizeString of an absolute path: empty and . segments are dropped
\* and a .. segment drops the segment before it, if there is one; kept is
\* what remains of the segments read so far
RECURSIVE normalizeString(_, _)
normalizeString(segments, kept) ==
  IF segments = <<>> THEN kept
  ELSE IF Head(segments) = <<>> \/ Head(segments) = <<".">>
  THEN normalizeString(Tail(segments), kept)
  ELSE IF Head(segments) = <<".", ".">>
  THEN normalizeString(Tail(segments),
                       IF kept = <<>> THEN <<>>
                       ELSE SubSeq(kept, 1, Len(kept) - 1))
  ELSE normalizeString(Tail(segments), Append(kept, Head(segments)))

\* the segments of path.resolve(from, to), for an absolute from
ResolvedSegments(from, to) ==
  IF isAbsolute(to) THEN normalizeString(Segments(to, <<>>), <<>>)
  ELSE normalizeString(Segments(from \o <<sep>> \o to, <<>>), <<>>)

\* the text of an absolute path with the given segments: / and the segments
\* with a separator between them
RECURSIVE Joined(_)
Joined(segments) ==
  IF segments = <<>> THEN <<>>
  ELSE IF Len(segments) = 1 THEN Head(segments)
  ELSE Head(segments) \o <<sep>> \o Joined(Tail(segments))

\* path.resolve(from, to), for an absolute from
resolve(from, to) == <<sep>> \o Joined(ResolvedSegments(from, to))

\* text.startsWith(prefix)
startsWith(text, prefix) ==
  /\ Len(prefix) <= Len(text)
  /\ SubSeq(text, 1, Len(prefix)) = prefix

\* validateFilePath that compares with the directory and not with the
\* directory followed by the separator
validateFilePath_NoSeparator(root, filePath) ==
  LET resolvedWorkspaceDir == resolve(root, <<>>)
      fullPath == resolve(resolvedWorkspaceDir, filePath)
  IN IF isAbsolute(filePath) THEN FALSE
     ELSE \/ fullPath = resolvedWorkspaceDir
          \/ startsWith(fullPath, resolvedWorkspaceDir)

\* validateFilePath(workspaceDir, filePath); root is the workspace
\* directory, an absolute path
validateFilePath(root, filePath) ==
  LET resolvedWorkspaceDir == resolve(root, <<>>)
      fullPath == resolve(resolvedWorkspaceDir, filePath)
  IN IF isAbsolute(filePath) THEN FALSE
     ELSE \/ fullPath = resolvedWorkspaceDir
          \/ startsWith(fullPath, resolvedWorkspaceDir \o <<sep>>)

(***************************************************************************)
(* applyTemplateVariables (docker/execution.ts).  A text is the sequence   *)
(* of its characters.                                                      *)
(***************************************************************************)
\* the text {{key}}
Placeholder(key) == <<"{", "{">> \o key \o <<"}", "}">>

\* the pattern occurs in the text at position i
MatchAt(text, pattern, i) ==
  /\ i + Len(pattern) - 1 <= Len(text)
  /\ \A j \in 1..Len(pattern) : text[i + j - 1] = pattern[j]

\* what String.prototype.replace puts in the place of a match when the
\* replacement is a string: $$ stands for a dollar sign and $& for the
\* matched text
RECURSIVE GetSubstitution(_, _)
GetSubstitution(matched, replacement) ==
  IF replacement = <<>> THEN <<>>
  ELSE IF Len(replacement) >= 2 /\ replacement[1] = "$" /\ replacement[2] = "$"
  THEN <<"$">> \o GetSubstitution(matched, SubSeq(replacement, 3, Len(replacement)))
  ELSE IF Len(replacement) >= 2 /\ replacement[1] = "$" /\ replacement[2] = "&"
  THEN matched \o GetSubstitution(matched, SubSeq(replacement, 3, Len(replacement)))
  ELSE <<Head(replacement)>> \o GetSubstitution(matched, Tail(replacement))

\* text.replace(new RegExp(pattern, "g"), replacement) for a pattern without
\* special characters, from position i on: the matches are found from left to
\* right in the text as it was and do not overlap
RECURSIVE ReplaceFrom(_, _, _, _)
ReplaceFrom(text, pattern, replacement, i) ==
  IF i > Len(text) THEN <<>>
  ELSE IF MatchAt(text, pattern, i)
  THEN GetSubstitution(pattern, replacement)
         \o ReplaceFrom(text, pattern, replacement, i + Len(pattern))
  ELSE <<text[i]>> \o ReplaceFrom(text, pattern, replacement, i + 1)

\* applyTemplateVariables: the variables are the entries of the object in
\* their order, each with its key and its value, if it is defined; every
\* defined one is replaced in the result of the replacements before it
RECURSIVE applyTemplateVariables(_, _)
applyTemplateVariables(template, variables) ==
  IF variables = <<>> THEN template
  ELSE LET v == Head(variables)
           replaced == IF v.defined
                       THEN ReplaceFrom(template, Placeholder(v.key), v.value, 1)
                       ELSE template
       IN applyTemplateVariables(replaced, Tail(variables))

(***************************************************************************)
(* mcp/handlers/execute.ts                                                 *)
(***************************************************************************)
\* the configuration the tool handlers are checked with: a workspace that
\* launches an image on its host directory, one that launches it on a copy,
\* and one that attaches to a container and has the copy option set
ServerConfig ==
  [projects |->
    << [name |-> "launch", path |-> workspaceDir, image |-> "img"],
       [name |-> "launchCopy", path |-> workspaceDir, image |-> "img",
        copy |-> TRUE, idleTimeout |-> 300000],
       [name |-> "attachCopy", path |-> workspaceDir, containerName |-> "c1",
        copy |-> TRUE] >>]

\* the workspaces the callers of the tools open
ServerNames == {"launch", "launchCopy", "attachCopy"}

\* stdout + (stderr ? "\nSTDERR:\n" + stderr : "")
Output(stdout, stderr) ==
  IF stderr # "" THEN <<stdout, "\nSTDERR:\n", stderr>> ELSE <<stdout>>

\* the response to a token that is not in the map
InvalidToken(workspaceToken) ==
  <<"Error: Invalid or expired workspace token", workspaceToken>>

\* the execute_command handler: the map after its resolutions of the token,
\* its response, and the processes executeDockerCommand started
execute_command(file, S, running, workspaceToken, command, dateNow, psOk, ran) ==
  LET exists == Lookup(S, workspaceToken, dateNow)
  IN IF ~exists.found
     THEN [sessions |-> exists.sessions, isError |-> TRUE,
           text |-> InvalidToken(workspaceToken),
           procs |-> <<>>, error |-> <<>>, dir |-> NoPath]
     ELSE
       LET named == Lookup(exists.sessions, workspaceToken, dateNow)
           workspaceName == named.sessions[workspaceToken].workspaceName
           dired == Lookup(named.sessions, workspaceToken, dateNow)
           workingDir == dired.sessions[workspaceToken].workingDir
           r == executeDockerCommand(file, running, workspaceName, command,
                                     workingDir, psOk, ran)
       IN IF workspaceName = "" \/ workingDir = NoPath
          THEN [sessions |-> dired.sessions, isError |-> TRUE,
                text |-> <<"Error: Workspace token mapping not found",
                           workspaceToken>>,
                procs |-> <<>>, error |-> <<>>, dir |-> workingDir]
          ELSE IF r.ok
          THEN [sessions |-> dired.sessions, isError |-> FALSE,
                text |-> Output(r.stdout, r.stderr),
                procs |-> r.procs, error |-> r.error, dir |-> workingDir]
          ELSE [sessions |-> dired.sessions, isError |-> TRUE,
                text |-> <<"Error executing command", r.error>>,
                procs |-> r.procs, error |-> r.error, dir |-> workingDir]

(***************************************************************************)
(* mcp/handlers/files.ts and mcp/handlers/batchFiles.ts                    *)
(***************************************************************************)
\* the text consisting of n times the character
Repeat(char, n) == [i \in 1..n |-> char]

\* the text of the path of a directory of the model: the host directories
\* are /r, /rr, ... and the temporary directories /2r, /2rr, ...
DirText(dir) ==
  IF dir[1] = "host" THEN <<sep>> \o Repeat("r", dir[2])
  ELSE <<sep, "2">> \o Repeat("r", dir[2])

\* fs/fileIO.ts, writeProjectFile(workingDir, filePath, content, mode): the
\* file it writes, at path.join(workingDir, filePath); wrOk = FALSE is a
\* write that fails
writeProjectFile(workingDir, filePath, wrOk) ==
  IF wrOk
  THEN [files |-> <<resolve(DirText(workingDir), filePath)>>, threw |-> FALSE]
  ELSE [files |-> <<>>, threw |-> TRUE]

\* write_file that writes without validating the path
write_file_NoValidation(S, workspaceToken, filePath, dateNow, wrOk) ==
  LET exists == Lookup(S, workspaceToken, dateNow)
  IN IF ~exists.found
     THEN [sessions |-> exists.sessions, isError |-> TRUE,
           text |-> InvalidToken(workspaceToken), written |-> <<>>,
           dir |-> NoPath]
     ELSE
       LET dired == Lookup(exists.sessions, workspaceToken, dateNow)
           workingDir == dired.sessions[workspaceToken].workingDir
           w == writeProjectFile(workingDir, filePath, wrOk)
       IN IF w.threw
          THEN [sessions |-> dired.sessions, isError |-> TRUE,
                text |-> <<"Error writing file", filePath>>,
                written |-> w.files, dir |-> workingDir]
          ELSE [sessions |-> dired.sessions, isError |-> FALSE,
                text |-> <<"Successfully wrote file", filePath>>,
                written |-> w.files, dir |-> workingDir]

\* the write_file handler: the map after its resolutions of the token, its
\* response and the files it wrote
write_file(S, workspaceToken, filePath, dateNow, wrOk) ==
  LET exists == Lookup(S, workspaceToken, dateNow)
  IN IF ~exists.found
     THEN [sessions |-> exists.sessions, isError |-> TRUE,
           text |-> InvalidToken(workspaceToken), written |-> <<>>,
           dir |-> NoPath]
     ELSE
       LET dired == Lookup(exists.sessions, workspaceToken, dateNow)
           workingDir == dired.sessions[workspaceToken].workingDir
           w == writeProjectFile(workingDir, filePath, wrOk)
       IN IF workingDir = NoPath
          THEN [sessions |-> dired.sessions, isError |-> TRUE,
                text |-> <<"Error: Workspace Token mapping not found",
                           workspaceToken>>,
                written |-> <<>>, dir |-> workingDir]
          ELSE IF ~validateFilePath(DirText(workingDir), filePath)
          THEN [sessions |-> dired.sessions, isError |-> TRUE,
                text |-> <<"Error: Invalid file path", filePath,
                           "path traversal attempt detected">>,
                written |-> <<>>, dir |-> workingDir]
          ELSE IF w.threw
          THEN [sessions |-> dired.sessions, isError |-> TRUE,
                text |-> <<"Error writing file", filePath>>,
                written |-> w.files, dir |-> workingDir]
          ELSE [sessions |-> dired.sessions, isError |-> FALSE,
                text |-> <<"Successfully wrote file", filePath>>,
                written |-> w.files, dir |-> workingDir]

\* the entries of the results of write_batch_files
Invalid(filePath) ==
  [filePath |-> filePath, success |-> FALSE,
   message |-> "Invalid file path - path traversal attempt detected"]
Wrote(filePath) ==
  [filePath |-> filePath, success |-> TRUE,
   message |-> "Successfully wrote file"]
WriteFailed(filePath) ==
  [filePath |-> filePath, success |-> FALSE, message |-> "write error"]

\* the first loop of write_batch_files over the files from index i on: the
\* entries it adds to the results, the files it found valid, and whether it
\* returned early
RECURSIVE ValidateAll(_, _, _, _)
ValidateAll(root, files, stopOnError, i) ==
  IF i > Len(files)
  THEN [results |-> <<>>, validatedFiles |-> <<>>, returned |-> FALSE]
  ELSE LET rest == ValidateAll(root, files, stopOnError, i + 1)
       IN IF ~validateFilePath(root, files[i])
          THEN IF stopOnError
               THEN [results |-> <<Invalid(files[i])>>,
                     validatedFiles |-> <<>>, returned |-> TRUE]
               ELSE [results |-> <<Invalid(files[i])>> \o rest.results,
                     validatedFiles |-> rest.validatedFiles,
                     returned |-> rest.returned]
          ELSE [results |-> rest.results,
                validatedFiles |-> <<files[i]>> \o rest.validatedFiles,
                returned |-> rest.returned]

\* the second loop of write_batch_files over the validated files from index
\* i on: the entries it adds to the results, the files it wrote, and
\* whether a write failed.  The write of the file with index failAt fails.
RECURSIVE WriteAll(_, _, _, _, _)
WriteAll(workingDir, validatedFiles, stopOnError, failAt, i) ==
  IF i > Len(validatedFiles)
  THEN [results |-> <<>>, written |-> <<>>, hasError |-> FALSE]
  ELSE LET w == writeProjectFile(workingDir, validatedFiles[i], i # failAt)
           rest == WriteAll(workingDir, validatedFiles, stopOnError, failAt,
                            i + 1)
       IN IF w.threw
          THEN IF stopOnError
               THEN [results |-> <<WriteFailed(validatedFiles[i])>>,
                     written |-> <<>>, hasError |-> TRUE]
               ELSE [results |-> <<WriteFailed(validatedFiles[i])>>
                                   \o rest.results,
                     written |-> rest.written, hasError |-> TRUE]
          ELSE [results |-> <<Wrote(validatedFiles[i])>> \o rest.results,
                written |-> w.files \o rest.written,
                hasError |-> rest.hasError]

\* one loop that validates each file and writes it at once if it is valid
RECURSIVE SinglePass(_, _, _, _, _)
SinglePass(workingDir, files, stopOnError, failAt, i) ==
  IF i > Len(files)
  THEN [results |-> <<>>, written |-> <<>>, hasError |-> FALSE]
  ELSE LET w == writeProjectFile(workingDir, files[i], i # failAt)
           rest == SinglePass(workingDir, files, stopOnError, failAt, i + 1)
           failed == IF ~validateFilePath(DirText(workingDir), files[i])
                     THEN <<Invalid(files[i])>>
                     ELSE IF w.threw THEN <<WriteFailed(files[i])>>
                     ELSE <<>>
       IN IF failed # <<>>
          THEN IF stopOnError
               THEN [results |-> failed, written |-> <<>>, hasError |-> TRUE]
               ELSE [results |-> failed \o rest.results,
                     written |-> rest.written, hasError |-> TRUE]
          ELSE [results |-> <<Wrote(files[i])>> \o rest.results,
                written |-> w.files \o rest.written,
                hasError |-> rest.hasError]

\* write_batch_files that validates and writes in one loop
write_batch_files_SinglePass(S, workspaceToken, files, stopOnError, dateNow, failAt) ==
  LET exists == Lookup(S, workspaceToken, dateNow)
  IN IF ~exists.found
     THEN [sessions |-> exists.sessions, isError |-> TRUE,
           text |-> InvalidToken(workspaceToken), results |-> <<>>,
           written |-> <<>>, dir |-> NoPath]
     ELSE
       LET dired == Lookup(exists.sessions, workspaceToken, dateNow)
           workingDir == dired.sessions[workspaceToken].workingDir
           w == SinglePass(workingDir, files, stopOnError, failAt, 1)
       IN [sessions |-> dired.sessions,
           isError |-> w.hasError /\ stopOnError,
           text |-> w.results, results |-> w.results,
           written |-> w.written, dir |-> workingDir]

\* the write_batch_files handler: the map after its resolutions of the
\* token, its response, the results it lists and the files it wrote
write_batch_files(S, workspaceToken, files, stopOnError, dateNow, failAt) ==
  LET exists == Lookup(S, workspaceToken, dateNow)
  IN IF ~exists.found
     THEN [sessions |-> exists.sessions, isError |-> TRUE,
           text |-> InvalidToken(workspaceToken), results |-> <<>>,
           written |-> <<>>, dir |-> NoPath]
     ELSE
       LET dired == Lookup(exists.sessions, workspaceToken, dateNow)
           workingDir == dired.sessions[workspaceToken].workingDir
           v == ValidateAll(DirText(workingDir), files, stopOnError, 1)
           w == WriteAll(workingDir, v.validatedFiles, stopOnError, failAt, 1)
           hasError == v.results # <<>> \/ w.hasError
       IN IF workingDir = NoPath
          THEN [sessions |-> dired.sessions, isError |-> TRUE,
                text |-> <<"Error: Workspace token mapping not found",
                           workspaceToken>>,
                results |-> <<>>, written |-> <<>>, dir |-> workingDir]
          ELSE IF v.returned
          THEN [sessions |-> dired.sessions, isError |-> TRUE,
                text |-> v.results, results |-> v.results,
                written |-> <<>>, dir |-> workingDir]
          ELSE [sessions |-> dired.sessions,
                isError |-> hasError /\ stopOnError,
                text |-> v.results \o w.results,
                results |-> v.results \o w.results,
                written |-> w.written, dir |-> workingDir]

(***************************************************************************)
(* mcp/handlers/batch.ts (in src/src/mcp/handlers/files.ts from line 103). *)
(* The handler awaits each executeDockerCommand: the model follows it      *)
(* from await to await.                                                    *)
(***************************************************************************)
\* the call of execute_batch_commands that has resolved its token and is
\* about to enter its loop
BatchEntered(workspaceToken, workspaceName, workingDir, commands, stopOnError) ==
  [pc |-> "loop", tok |-> workspaceToken, workspaceName |-> workspaceName,
   workingDir |-> workingDir, commands |-> commands,
   stopOnError |-> stopOnError, next |-> 1, broke |-> FALSE,
   results |-> <<>>, events |-> <<>>]

\* the call that returned before its loop: its token was not in the map
BatchRefused(workspaceToken, commands, stopOnError) ==
  [pc |-> "done", tok |-> workspaceToken, workspaceName |-> "",
   workingDir |-> NoPath, commands |-> commands,
   stopOnError |-> stopOnError, next |-> 1, broke |-> TRUE,
   results |-> <<>>, events |-> <<>>]

\* the start of execute_batch_commands: the map after its resolutions of
\* the token, and either its response or the call that enters the loop
execute_batch_commands(S, workspaceToken, commands, stopOnError, dateNow) ==
  LET exists == Lookup(S, workspaceToken, dateNow)
  IN IF ~exists.found
     THEN [sessions |-> exists.sessions, returned |-> TRUE, isError |-> TRUE,
           text |-> InvalidToken(workspaceToken),
           batch |-> BatchRefused(workspaceToken, commands, stopOnError)]
     ELSE
       LET named == Lookup(exists.sessions, workspaceToken, dateNow)
           workspaceName == named.sessions[workspaceToken].workspaceName
           dired == Lookup(named.sessions, workspaceToken, dateNow)
           workingDir == dired.sessions[workspaceToken].workingDir
       IN IF workspaceName = "" \/ workingDir = NoPath
          THEN [sessions |-> dired.sessions, returned |-> TRUE,
                isError |-> TRUE,
                text |-> <<"Error: Workspace token mapping not found",
                           workspaceToken>>,
                batch |-> BatchRefused(workspaceToken, commands, stopOnError)]
          ELSE [sessions |-> dired.sessions, returned |-> FALSE,
                isError |-> FALSE, text |-> <<>>,
                batch |-> BatchEntered(workspaceToken, workspaceName,
                                       workingDir, commands, stopOnError)]

\* the loop may take its next command: it has not broken and the list is
\* not exhausted
LoopContinues(b) ==
  b.pc = "loop" /\ ~b.broke /\ b.next <= Len(b.commands)

\* the call awaits executeDockerCommand of its next command
CommandStarted(b) ==
  [b EXCEPT !.pc = "running",
            !.events = Append(@, <<"start", b.next>>)]

\* a call that forgets the result of the command that has ended
CommandEnded_DropsResult(b, r) ==
  [b EXCEPT !.pc = "loop",
            !.next = @ + 1,
            !.broke = ~r.ok /\ b.stopOnError,
            !.events = Append(@, <<"end", b.next>>)]

\* a loop that goes on after a command has failed whatever stopOnError
CommandEnded_NoBreak(b, r) ==
  [b EXCEPT !.pc = "loop",
            !.next = @ + 1,
            !.results = Append(@, [command |-> b.commands[b.next],
                                   success |-> r.ok,
                                   output |-> IF r.ok
                                              THEN Output(r.stdout, r.stderr)
                                              ELSE r.error]),
            !.events = Append(@, <<"end", b.next>>)]

\* the call after the executeDockerCommand it awaited has ended with r: the
\* result is pushed and, if the command failed and stopOnError is set, the
\* loop breaks
CommandEnded(b, r) ==
  [b EXCEPT !.pc = "loop",
            !.next = @ + 1,
            !.broke = ~r.ok /\ b.stopOnError,
            !.results = Append(@, [command |-> b.commands[b.next],
                                   success |-> r.ok,
                                   output |-> IF r.ok
                                              THEN Output(r.stdout, r.stderr)
                                              ELSE r.error]),
            !.events = Append(@, <<"end", b.next>>)]

\* the handler runs on from the head of its loop without a pause: it calls
\* executeDockerCommand for the next command, which starts its process at
\* once, and awaits it; or the loop is over and it returns
Loop(b) ==
  IF LoopContinues(b) THEN CommandStarted(b) ELSE [b EXCEPT !.pc = "done"]

\* the response of execute_batch_commands after its loop: the results, never
\* with isError
BatchResponse(b) ==
  [tool |-> "execute_batch_commands", isError |-> FALSE, text |-> b.results]

(***************************************************************************)
(* config/workspaceConfig.ts, validateWorkspaceName, and                   *)
(* mcp/handlers/workspaces.ts, open_workspace                              *)
(***************************************************************************)
\* workspace.hostPath: the field of that name, undefined when the
\* descriptor has none
hostPath(workspace) ==
  IF "hostPath" \in DOMAIN workspace THEN workspace.hostPath ELSE NoPath

\* validateWorkspaceName that tests workspace.path
validateWorkspaceName_Path(file, D, workspaceName) ==
  \E workspace \in getWorkspaceByName(file, workspaceName) :
    workspace.path \in D

\* validateWorkspaceName(workspaceName): a workspace of that name is
\* registered and fs.existsSync and isDirectory hold of its hostPath;
\* existsSync of undefined is false
validateWorkspaceName(file, D, workspaceName) ==
  \E workspace \in getWorkspaceByName(file, workspaceName) :
    hostPath(workspace) \in D

\* the open_workspace handler: the store after it, and its response
open_workspace(file, S, D, tokN, workspaceName, mkOk, cpOk, dateNow) ==
  LET o == openWorkspace(file, S, D, tokN, workspaceName, mkOk, cpOk, dateNow)
  IN IF ~validateWorkspaceName(file, D, workspaceName)
     THEN [sessions |-> S, disk |-> D, issued |-> tokN, isError |-> TRUE,
           text |-> <<"Error: Invalid or unregistered workspace",
                      workspaceName>>,
           token |-> 0, dir |-> NoPath]
     ELSE IF ~o.ok
     THEN [sessions |-> o.sessions, disk |-> o.disk, issued |-> o.issued,
           isError |-> TRUE,
           text |-> <<"Error: Could not open workspace", workspaceName>>,
           token |-> 0, dir |-> o.dir]
     ELSE [sessions |-> o.sessions, disk |-> o.disk, issued |-> o.issued,
           isError |-> FALSE, text |-> <<o.token>>,
           token |-> o.token, dir |-> o.dir]

(***************************************************************************)
(* cli/commands/workspace.ts                                               *)
(***************************************************************************)
\* the function f on those of the keys it has
Restrict(f, keys) == [k \in keys \cap DOMAIN f |-> f[k]]

\* the index of the first workspace of the list that has the name, 0 if
\* there is none: findIndex((p) => p.name === name), with 0 for -1
FindIndex(workspaces, name) ==
  LET hits == {i \in DOMAIN workspaces : workspaces[i].name = name}
  IN IF hits = {} THEN 0 ELSE CHOOSE i \in hits : \A j \in hits : i <= j

\* the entry addWorkspace pushes for a new name: copy is stored only when it
\* is true
NewEntry(options, workspacePath) ==
  Restrict(options, {"image", "containerName", "idleTimeout"})
    @@ (IF options.copy THEN [copy |-> TRUE] ELSE <<>>)
    @@ [name |-> options.name, path |-> workspacePath]

\* the entry of an existing name after addWorkspace has updated it: the
\* options that are given replace the fields of the entry, the others stay
UpdatedEntry(existing, options, workspacePath) ==
  Restrict(options, {"image", "containerName", "idleTimeout"})
    @@ [copy |-> options.copy, path |-> workspacePath]
    @@ existing

\* addWorkspace(options, context) where the directory exists: the
\* configuration file after it, and whether it threw
addWorkspace(file, options, workspacePath) ==
  IF "image" \notin DOMAIN options /\ "containerName" \notin DOMAIN options
  THEN [file |-> file, threw |-> TRUE]
  ELSE
    LET config == getConfig(file)
        existingIndex == FindIndex(config.workspaces, options.name)
    IN IF existingIndex # 0
       THEN [file |-> saveConfig(
                        [config EXCEPT !.workspaces[existingIndex] =
                           UpdatedEntry(@, options, workspacePath)]),
             threw |-> FALSE]
       ELSE [file |-> saveConfig(
                        [config EXCEPT !.workspaces =
                           Append(@, NewEntry(options, workspacePath))]),
             threw |-> FALSE]

\* the list without its element of index i: splice(i, 1)
Splice(list, i) ==
  [j \in 1..(Len(list) - 1) |-> IF j < i THEN list[j] ELSE list[j + 1]]

\* removeWorkspace({ name }): the configuration file after it, and whether a
\* workspace was removed
removeWorkspace(file, name) ==
  LET config == getConfig(file)
      index == FindIndex(config.workspaces, name)
  IN IF index # 0
     THEN [file |-> saveConfig([config EXCEPT !.workspaces = Splice(@, index)]),
           removed |-> TRUE]
     ELSE [file |-> file, removed |-> FALSE]

(***************************************************************************)
(* mcp/serverHttp.ts                                                       *)
(***************************************************************************)
\* a scavenger that closes a session at the timeout already
Expired_AtTimeout(lastActivity, now, IDLE_TIMEOUT) ==
  now - lastActivity >= IDLE_TIMEOUT

\* the test of the scavenger: now - lastActivity > IDLE_TIMEOUT
Expired(lastActivity, now, IDLE_TIMEOUT) ==
  now - lastActivity > IDLE_TIMEOUT

\* sessionActivity[sid] = Date.now()
Active(h, sid, now) ==
  [h EXCEPT !.sessionActivity = PutKey(@, sid, now)]

\* the tokens the HTTP session has opened that are in the map
OpenedBy(h, S, sid) ==
  {t \in DOMAIN S : t \in DOMAIN h.openedBy /\ h.openedBy[t] = sid}

\* an onclose that closes the workspaces the HTTP session has opened, and
\* deletes their temporary directories
onclose_ClosesWorkspaces(h, S, D, sid) ==
  [http |-> [h EXCEPT !.transports = @ \ {sid},
                      !.sessionActivity = DeleteKey(@, sid)],
   sessions |-> [t \in DOMAIN S \ OpenedBy(h, S, sid) |-> S[t]],
   disk |-> D \ {S[t].workingDir : t \in {u \in OpenedBy(h, S, sid) :
                                             S[u].isTempDir}}]

\* transport.onclose: the session id is deleted from transports and from
\* sessionActivity; the workspace tokens and the disk are not touched
onclose(h, S, D, sid) ==
  [http |-> [h EXCEPT !.transports = @ \ {sid},
                      !.sessionActivity = DeleteKey(@, sid)],
   sessions |-> S, disk |-> D]

\* the callback of scavengerInterval over the entries of sessionActivity
\* that are left to visit: an expired session has its transport closed, if
\* it has one, which runs onclose, and its activity entry deleted
RECURSIVE scavenge(_, _, _, _, _)
scavenge(h, S, D, entries, now) ==
  IF entries = {} THEN [http |-> h, sessions |-> S, disk |-> D, closed |-> <<>>]
  ELSE
    LET sid == CHOOSE x \in entries : \A y \in entries : x <= y
        c == IF sid \in h.transports THEN onclose(h, S, D, sid)
             ELSE [http |-> h, sessions |-> S, disk |-> D]
        deleted == [c.http EXCEPT !.sessionActivity = DeleteKey(@, sid)]
        rest == scavenge(deleted, c.sessions, c.disk, entries \ {sid}, now)
        skip == scavenge(h, S, D, entries \ {sid}, now)
    IN IF sid \in DOMAIN h.sessionActivity
          /\ Expired(h.sessionActivity[sid], now, h.IDLE_TIMEOUT)
       THEN [rest EXCEPT !.closed = <<sid>> \o @]
       ELSE skip

\* a POST that is an initialize request without a session id: the transport
\* generates the id, and onsessioninitialized enters it in both maps
initialize(h, now) ==
  LET sid == h.generated + 1
  IN [h EXCEPT !.generated = sid,
               !.transports = @ \cup {sid},
               !.sessionActivity = PutKey(@, sid, now)]

(***************************************************************************)
(* What the model records about the calls                                  *)
(***************************************************************************)
\* a call: op and its arguments (tok, name, now), ok (a true / non-null
\* result), the directory and the closed tokens returned, the steps taken in
\* their order, and whether the call threw; sid is the session id of the HTTP
\* request that made the call, 0 if there is none
Call(op, tok, name, ok, dir, closed, steps, now, threw) ==
  [op |-> op, tok |-> tok, name |-> name, ok |-> ok, dir |-> dir,
   closed |-> closed, steps |-> steps, now |-> now, threw |-> threw,
   sid |-> 0]

\* a call made by an HTTP request that carries the session id sid
Request(op, sid, tok, name, ok, dir) ==
  [Call(op, tok, name, ok, dir, <<>>, <<>>, 0, FALSE) EXCEPT !.sid = sid]

NoCall == Call("none", 0, "", FALSE, NoPath, <<>>, <<>>, 0, FALSE)

\* the successful resolution of tok at time at; before is the access time it
\* replaced
NoTouch == [tok |-> 0, at |-> 0, before |-> 0, idleTimeout |-> 0]

ResolveOps == {"exists", "getName", "getWorkingDir", "getInfo"}

\* no tool handler has returned yet
NoResponse == [tool |-> "none", isError |-> FALSE, text |-> <<>>]

\* the HTTP server is not running
NoHttp ==
  [transports |-> {}, sessionActivity |-> <<>>, generated |-> 0,
   IDLE_TIMEOUT |-> 0, openedBy |-> <<>>]

\* no execute_batch_commands call has been made
NoBatch ==
  [pc |-> "idle", tok |-> 0, workspaceName |-> "", workingDir |-> NoPath,
   commands |-> <<>>, stopOnError |-> FALSE, next |-> 1, broke |-> FALSE,
   results |-> <<>>, events |-> <<>>]

(***************************************************************************)
(* Initial state: the module has just been loaded                          *)
(***************************************************************************)
Init ==
  /\ configFile = TestConfig
  /\ sessions = <<>>
  /\ disk = {workspaceDir}
  /\ issued = 0
  /\ clock = 0
  /\ gone = {}
  /\ last = NoCall
  /\ touch = NoTouch
  /\ rmLog = <<>>
  /\ cleanupInterval = FALSE
  /\ containers = {}
  /\ procs = <<>>
  /\ error = <<>>
  /\ response = NoResponse
  /\ written = <<>>
  /\ batch = NoBatch
  /\ arg = <<>>
  /\ result = <<>>
  /\ http = NoHttp

(***************************************************************************)
(* Actions                                                                 *)
(***************************************************************************)
\* time passes
Tick ==
  /\ clock + TickMs <= MaxTicks * TickMs
  /\ clock' = clock + TickMs
  /\ last' = Call("tick", 0, "", TRUE, NoPath, <<>>, <<>>, 0, FALSE)
  /\ touch' = NoTouch
  /\ UNCHANGED <<served, outside, configFile, sessions, disk, issued, gone, rmLog>>

\* openWorkspace(workspaceName)
OpenWorkspace(workspaceName, mkOk, cpOk) ==
  /\ getWorkspaceByName(configFile, workspaceName) # {} => issued < MaxTokens
  /\ LET o == openWorkspace(configFile, sessions, disk, issued,
                            workspaceName, mkOk, cpOk, clock)
     IN /\ sessions' = o.sessions
        /\ disk' = o.disk
        /\ issued' = o.issued
        /\ last' = Call("open", o.token, workspaceName, o.ok, o.dir, <<>>,
                        o.steps, 0, FALSE)
  /\ touch' = NoTouch
  /\ UNCHANGED <<served, outside, configFile, clock, gone, rmLog>>

\* the resolvers: each touches the access time of a live token
Resolve(op, workspaceToken) ==
  /\ LET r == Lookup(sessions, workspaceToken, clock)
     IN /\ sessions' = r.sessions
        /\ last' = IF r.found
                   THEN Call(op, workspaceToken,
                             sessions[workspaceToken].workspaceName, TRUE,
                             sessions[workspaceToken].workingDir, <<>>, <<>>,
                             0, FALSE)
                   ELSE Call(op, workspaceToken, "", FALSE, NoPath, <<>>, <<>>,
                             0, FALSE)
        /\ touch' = IF r.found
                    THEN [tok |-> workspaceToken, at |-> clock,
                          before |-> sessions[workspaceToken].lastAccessTime,
                          idleTimeout |-> sessions[workspaceToken].idleTimeout]
                    ELSE NoTouch
  /\ UNCHANGED <<served, outside, configFile, disk, issued, clock, gone, rmLog>>

workspaceTokenExists(workspaceToken) ==
  Resolve("exists", workspaceToken)

getWorkspaceNameForWorkspaceToken(workspaceToken) ==
  Resolve("getName", workspaceToken)

getWorkingDirForWorkspaceToken(workspaceToken) ==
  Resolve("getWorkingDir", workspaceToken)

getWorkspaceTokenInfo(workspaceToken) ==
  Resolve("getInfo", workspaceToken)

\* closeWorkspace(workspaceToken)
CloseWorkspace(workspaceToken, rmOk) ==
  /\ LET c == closeWorkspace(sessions, disk, workspaceToken, rmOk)
     IN /\ sessions' = c.sessions
        /\ disk' = c.disk
        /\ gone' = gone \cup (DOMAIN sessions \ DOMAIN c.sessions)
        /\ rmLog' = Logged(rmLog, RmAttempts(c, rmOk))
        /\ last' = Call("close", workspaceToken, "", c.ret, c.dir, <<>>,
                        c.steps, 0, c.threw)
  /\ touch' = NoTouch
  /\ UNCHANGED <<served, outside, configFile, issued, clock>>

\* checkAndCloseIdleWorkspaces(currentTime)
Sweep(currentTime, rmOk) ==
  /\ LET c == checkAndCloseIdleWorkspaces(sessions, disk, currentTime, rmOk)
     IN /\ sessions' = c.sessions
        /\ disk' = c.disk
        /\ gone' = gone \cup (DOMAIN sessions \ DOMAIN c.sessions)
        /\ rmLog' = Logged(rmLog, c.removed)
        /\ last' = Call("sweep", 0, "", TRUE, NoPath, c.ret, <<>>,
                        currentTime, FALSE)
  /\ touch' = IF last.op \in ResolveOps THEN touch ELSE NoTouch
  /\ UNCHANGED <<served, outside, configFile, issued, clock>>

\* _setWorkspaceTokenLastAccessTime(workspaceToken, time)
SetLastAccessTime(workspaceToken, time) ==
  /\ sessions' = IF workspaceToken \in DOMAIN sessions
                 THEN [sessions EXCEPT ![workspaceToken].lastAccessTime = time]
                 ELSE sessions
  /\ last' = Call("setLastAccessTime", workspaceToken, "",
                  workspaceToken \in DOMAIN sessions, NoPath, <<>>, <<>>,
                  0, FALSE)
  /\ touch' = NoTouch
  /\ UNCHANGED <<served, outside, configFile, disk, issued, clock, gone, rmLog>>

\* _setWorkspaceTokenIdleTimeout(workspaceToken, timeout)
SetIdleTimeout(workspaceToken, timeout) ==
  /\ sessions' = IF workspaceToken \in DOMAIN sessions
                 THEN [sessions EXCEPT ![workspaceToken].idleTimeout = timeout]
                 ELSE sessions
  /\ last' = Call("setIdleTimeout", workspaceToken, "",
                  workspaceToken \in DOMAIN sessions, NoPath, <<>>, <<>>,
                  0, FALSE)
  /\ touch' = NoTouch
  /\ UNCHANGED <<served, outside, configFile, disk, issued, clock, gone, rmLog>>

\* another process (a tmp cleaner) removes the temporary directory of a
\* session
ExternalRemove(n) ==
  /\ TempPath(n) \in disk
  /\ \E t \in DOMAIN sessions : sessions[t].workingDir = TempPath(n)
  /\ disk' = disk \ {TempPath(n)}
  /\ last' = Call("externalRemove", 0, "", TRUE, TempPath(n), <<>>, <<>>, 0,
                  FALSE)
  /\ touch' = NoTouch
  /\ UNCHANGED <<served, outside, configFile, sessions, issued, clock, gone, rmLog>>

\* startIdleWorkspaceCleanup(checkInterval): clears the timer that is set, if
\* any, and sets a new one
StartIdleWorkspaceCleanup ==
  /\ cleanupInterval' = TRUE
  /\ last' = Call("startCleanup", 0, "", TRUE, NoPath, <<>>, <<>>, 0, FALSE)
  /\ touch' = NoTouch
  /\ UNCHANGED <<served, containers, procs, error, configFile, sessions, disk, issued,
                 clock, gone, rmLog>>

\* stopIdleWorkspaceCleanup()
StopIdleWorkspaceCleanup ==
  /\ cleanupInterval' = FALSE
  /\ last' = Call("stopCleanup", 0, "", cleanupInterval, NoPath, <<>>, <<>>, 0,
                  FALSE)
  /\ touch' = NoTouch
  /\ UNCHANGED <<served, containers, procs, error, configFile, sessions, disk, issued,
                 clock, gone, rmLog>>

\* the callback of the timer: checkAndCloseIdleWorkspaces(Date.now())
TimerSweep(rmOk) ==
  /\ cleanupInterval
  /\ \E c \in {checkAndCloseIdleWorkspaces(sessions, disk, clock, rmOk)} :
        /\ sessions' = c.sessions
        /\ disk' = c.disk
        /\ gone' = gone \cup (DOMAIN sessions \ DOMAIN c.sessions)
        /\ rmLog' = Logged(rmLog, c.removed)
        /\ last' = Call("timer", 0, "", TRUE, NoPath, c.ret, <<>>, clock, FALSE)
  /\ touch' = IF last.op \in ResolveOps THEN touch ELSE NoTouch
  /\ UNCHANGED <<served, outside, configFile, issued, clock>>

\* executeDockerCommand(workspaceName, command, hostDir)
ExecuteDockerCommand(workspaceName, command, hostDir, psOk, ran) ==
  /\ LET r == executeDockerCommand(configFile, containers, workspaceName,
                                   command, hostDir, psOk, ran)
     IN /\ procs' = r.procs
        /\ error' = r.error
        /\ last' = Call("execute", 0, workspaceName, r.ok, hostDir, <<>>, <<>>,
                        0, ~r.ok)
  /\ touch' = NoTouch
  /\ UNCHANGED <<served, cleanupInterval, containers, configFile, sessions, disk,
                 issued, clock, gone, rmLog>>

\* docker starts a container
ContainerStart(containerName) ==
  /\ containerName \notin containers
  /\ containers' = containers \cup {containerName}
  /\ last' = Call("containerStart", 0, containerName, TRUE, NoPath, <<>>, <<>>,
                  0, FALSE)
  /\ touch' = NoTouch
  /\ UNCHANGED <<served, cleanupInterval, procs, error, configFile, sessions, disk,
                 issued, clock, gone, rmLog>>

\* a container stops
ContainerStop(containerName) ==
  /\ containerName \in containers
  /\ containers' = containers \ {containerName}
  /\ last' = Call("containerStop", 0, containerName, TRUE, NoPath, <<>>, <<>>,
                  0, FALSE)
  /\ touch' = NoTouch
  /\ UNCHANGED <<served, cleanupInterval, procs, error, configFile, sessions, disk,
                 issued, clock, gone, rmLog>>

\* the open_workspace tool
OpenWorkspaceTool(workspaceName, mkOk, cpOk) ==
  /\ getWorkspaceByName(configFile, workspaceName) # {} => issued < MaxTokens
  /\ \E h \in {open_workspace(configFile, sessions, disk, issued,
                               workspaceName, mkOk, cpOk, clock)} :
        /\ sessions' = h.sessions
        /\ disk' = h.disk
        /\ issued' = h.issued
        /\ response' = [tool |-> "open_workspace", isError |-> h.isError,
                        text |-> h.text]
        /\ last' = Call("open_workspace", h.token, workspaceName,
                        ~h.isError, h.dir, <<>>, <<>>, 0, FALSE)
  /\ touch' = NoTouch
  /\ procs' = <<>>
  /\ error' = <<>>
  /\ written' = <<>>
  /\ UNCHANGED <<cleanupInterval, containers, configFile, clock, gone, rmLog,
                 batch, arg, result, http>>

\* the host directory of the workspaces is deleted from outside
HostRemove ==
  /\ workspaceDir \in disk
  /\ disk' = disk \ {workspaceDir}
  /\ last' = Call("hostRemove", 0, "", TRUE, workspaceDir, <<>>, <<>>, 0,
                  FALSE)
  /\ touch' = NoTouch
  /\ UNCHANGED <<served, outside, configFile, sessions, issued, clock, gone,
                 rmLog>>

\* the host directory of the workspaces is created again
HostRestore ==
  /\ workspaceDir \notin disk
  /\ disk' = disk \cup {workspaceDir}
  /\ last' = Call("hostRestore", 0, "", TRUE, workspaceDir, <<>>, <<>>, 0,
                  FALSE)
  /\ touch' = NoTouch
  /\ UNCHANGED <<served, outside, configFile, sessions, issued, clock, gone,
                 rmLog>>

\* the names of the workspaces of a list
Names(workspaces) == {workspaces[i].name : i \in DOMAIN workspaces}

\* saveConfig(config) on the configuration under test
SaveConfig ==
  /\ arg.fn = "saveConfig"
  /\ ~arg.saved
  /\ configFile' = saveConfig(arg.config)
  /\ arg' = [arg EXCEPT !.saved = TRUE]
  /\ last' = Call("saveConfig", 0, "", TRUE, NoPath, <<>>, <<>>, 0, FALSE)
  /\ touch' = NoTouch
  /\ UNCHANGED <<outside, sessions, disk, issued, clock, gone, rmLog,
                 response, written, batch, result,
                 http>>

\* getConfig() and, on what it returns, the search of getWorkspaceByName
\* for each name of the configuration under test
GetConfig ==
  /\ arg.fn = "saveConfig"
  /\ result' = [done |-> TRUE, value |-> getConfig(configFile),
                found |-> {w.name : w \in
                             UNION {getWorkspaceByName(configFile, n) :
                                      n \in Names(arg.config.workspaces)}}]
  /\ last' = Call("getConfig", 0, "", TRUE, NoPath, <<>>, <<>>, 0, FALSE)
  /\ touch' = NoTouch
  /\ UNCHANGED <<outside, configFile, sessions, disk, issued, clock, gone,
                 rmLog, response, written, batch, arg,
                 http>>

\* codebox workspace add
AddWorkspace(options) ==
  /\ \E a \in {addWorkspace(configFile, options, workspaceDir)} :
        /\ configFile' = a.file
        /\ last' = Call("addWorkspace", 0, options.name, ~a.threw,
                        workspaceDir, <<>>, <<>>, 0, a.threw)
  /\ touch' = NoTouch
  /\ UNCHANGED <<served, outside, sessions, disk, issued, clock, gone, rmLog>>

\* codebox workspace remove --name
RemoveWorkspace(name) ==
  /\ \E r \in {removeWorkspace(configFile, name)} :
        /\ configFile' = r.file
        /\ last' = Call("removeWorkspace", 0, name, r.removed, NoPath, <<>>,
                        <<>>, 0, FALSE)
  /\ touch' = NoTouch
  /\ UNCHANGED <<served, outside, sessions, disk, issued, clock, gone, rmLog>>

\* the workspace tokens and the HTTP session ids the server has handed out
Handed(tokN, h) == tokN + h.generated

\* POST /mcp, initialize, without a session id; the tokens and the session
\* ids handed out are capped together
HttpInitialize ==
  /\ http.generated < MaxHttp
  /\ Handed(issued, http) <= MaxHttp
  /\ http' = initialize(http, clock)
  /\ last' = Request("initialize", http.generated + 1, 0, "", TRUE, NoPath)
  /\ touch' = NoTouch
  /\ UNCHANGED <<outside, configFile, sessions, disk, issued, clock, gone,
                 rmLog, response, written, batch, arg, result>>

\* GET /mcp with a session id: 400 if the id has no transport, otherwise
\* the activity is updated and the transport handles the request
HttpGet(sid) ==
  /\ http' = IF sid \in http.transports THEN Active(http, sid, clock)
             ELSE http
  /\ last' = Request("GET", sid, 0, "", sid \in http.transports, NoPath)
  /\ touch' = NoTouch
  /\ UNCHANGED <<outside, configFile, sessions, disk, issued, clock, gone,
                 rmLog, response, written, batch, arg, result>>

\* DELETE /mcp with a session id: 400 if the id has no transport, otherwise
\* the activity is updated and the transport handles the request, which
\* closes it
HttpDelete(sid) ==
  /\ \E c \in {IF sid \in http.transports
                THEN onclose(Active(http, sid, clock), sessions, disk, sid)
                ELSE [http |-> http, sessions |-> sessions,
                      disk |-> disk]} :
        /\ http' = c.http
        /\ sessions' = c.sessions
        /\ disk' = c.disk
        /\ gone' = gone \cup (DOMAIN sessions \ DOMAIN c.sessions)
  /\ last' = Request("DELETE", sid, 0, "", sid \in http.transports, NoPath)
  /\ touch' = NoTouch
  /\ UNCHANGED <<outside, configFile, issued, clock, rmLog, response, written,
                 batch, arg, result>>

\* the callback of scavengerInterval
Scavenge ==
  /\ \E c \in {scavenge(http, sessions, disk, DOMAIN http.sessionActivity,
                         clock)} :
        /\ http' = c.http
        /\ sessions' = c.sessions
        /\ disk' = c.disk
        /\ gone' = gone \cup (DOMAIN sessions \ DOMAIN c.sessions)
        /\ last' = Call("scavenge", 0, "", TRUE, NoPath, c.closed, <<>>,
                        clock, FALSE)
  /\ touch' = NoTouch
  /\ UNCHANGED <<outside, configFile, issued, clock, rmLog, response, written,
                 batch, arg, result>>

\* POST /mcp with a session id that has no transport: 400
BadRequest(sid, tool) ==
  /\ last' = Request(tool, sid, 0, "", FALSE, NoPath)
  /\ response' = NoResponse
  /\ touch' = NoTouch
  /\ UNCHANGED <<outside, configFile, sessions, disk, issued, clock, gone,
                 rmLog, written, batch, arg, result, http>>

\* POST /mcp, the open_workspace tool called in an HTTP session
PostOpenWorkspace(sid, workspaceName, mkOk, cpOk) ==
  IF sid \notin http.transports THEN BadRequest(sid, "open_workspace")
  ELSE
    /\ getWorkspaceByName(configFile, workspaceName) # {}
         => issued < MaxTokens /\ Handed(issued, http) <= MaxHttp
    /\ \E h \in {open_workspace(configFile, sessions, disk, issued,
                                 workspaceName, mkOk, cpOk, clock)} :
          /\ sessions' = h.sessions
          /\ disk' = h.disk
          /\ issued' = h.issued
          /\ response' = [tool |-> "open_workspace", isError |-> h.isError,
                          text |-> h.text]
          /\ http' = [Active(http, sid, clock) EXCEPT
                        !.openedBy = IF h.isError THEN @
                                     ELSE PutKey(@, h.token, sid)]
          /\ last' = Request("open_workspace", sid, h.token, workspaceName,
                             ~h.isError, h.dir)
    /\ touch' = NoTouch
    /\ UNCHANGED <<outside, configFile, clock, gone, rmLog, written, batch,
                   arg, result>>

\* POST /mcp, the close_workspace tool called in an HTTP session
PostCloseWorkspace(sid, workspaceToken) ==
  IF sid \notin http.transports THEN BadRequest(sid, "close_workspace")
  ELSE
    /\ \E c \in {closeWorkspace(sessions, disk, workspaceToken, TRUE)} :
          /\ sessions' = c.sessions
          /\ disk' = c.disk
          /\ gone' = gone \cup (DOMAIN sessions \ DOMAIN c.sessions)
          /\ response' = [tool |-> "close_workspace", isError |-> ~c.ret,
                          text |-> IF c.ret
                                   THEN <<"Workspace token closed",
                                          workspaceToken>>
                                   ELSE <<"Error: Invalid workspace token",
                                          workspaceToken>>]
          /\ last' = Request("close_workspace", sid, workspaceToken, "",
                             c.ret, c.dir)
    /\ http' = Active(http, sid, clock)
    /\ touch' = NoTouch
    /\ UNCHANGED <<outside, configFile, issued, clock, rmLog, written, batch,
                   arg, result>>

\* POST /mcp, the execute_command tool called in an HTTP session; the
\* command runs to its end and succeeds
PostExecuteCommand(sid, workspaceToken, command) ==
  IF sid \notin http.transports THEN BadRequest(sid, "execute_command")
  ELSE
    /\ \E h \in {execute_command(configFile, sessions, containers,
                                  workspaceToken, command, clock, TRUE,
                                  "ok")} :
          /\ sessions' = h.sessions
          /\ response' = [tool |-> "execute_command", isError |-> h.isError,
                          text |-> h.text]
          /\ procs' = h.procs
          /\ error' = h.error
          /\ last' = Request("execute_command", sid, workspaceToken, "",
                             ~h.isError, h.dir)
    /\ http' = Active(http, sid, clock)
    /\ touch' = NoTouch
    /\ UNCHANGED <<cleanupInterval, containers, configFile, disk, issued,
                   clock, gone, rmLog, written, batch, arg, result>>

\* the execute_command tool
ExecuteCommand(workspaceToken, command, psOk, ran) ==
  /\ \E h \in {execute_command(configFile, sessions, containers,
                                workspaceToken, command, clock, psOk, ran)} :
        /\ sessions' = h.sessions
        /\ procs' = h.procs
        /\ error' = h.error
        /\ response' = [tool |-> "execute_command", isError |-> h.isError,
                        text |-> h.text]
        /\ last' = Call("execute_command", workspaceToken, "", ~h.isError,
                        h.dir, <<>>, <<>>, 0, FALSE)
  /\ touch' = NoTouch
  /\ written' = <<>>
  /\ UNCHANGED <<cleanupInterval, containers, configFile, disk, issued, clock,
                 gone, rmLog, batch, arg, result, http>>

\* the write_file tool
WriteFile(workspaceToken, filePath, wrOk) ==
  /\ \E h \in {write_file(sessions, workspaceToken, filePath, clock, wrOk)} :
        /\ sessions' = h.sessions
        /\ written' = h.written
        /\ response' = [tool |-> "write_file", isError |-> h.isError,
                        text |-> h.text]
        /\ last' = Call("write_file", workspaceToken, "", ~h.isError, h.dir,
                        <<>>, <<filePath>>, 0, FALSE)
  /\ touch' = NoTouch
  /\ procs' = <<>>
  /\ error' = <<>>
  /\ UNCHANGED <<cleanupInterval, containers, configFile, disk, issued, clock,
                 gone, rmLog, batch, arg, result, http>>

\* the write_batch_files tool
WriteBatchFiles(workspaceToken, files, stopOnError, failAt) ==
  /\ \E h \in {write_batch_files(sessions, workspaceToken, files,
                                  stopOnError, clock, failAt)} :
        /\ sessions' = h.sessions
        /\ written' = h.written
        /\ response' = [tool |-> "write_batch_files", isError |-> h.isError,
                        text |-> h.text]
        /\ last' = Call("write_batch_files", workspaceToken, "", ~h.isError,
                        h.dir, <<>>, files, 0, stopOnError)
  /\ touch' = NoTouch
  /\ procs' = <<>>
  /\ error' = <<>>
  /\ UNCHANGED <<cleanupInterval, containers, configFile, disk, issued, clock,
                 gone, rmLog, batch, arg, result, http>>

\* the execute_batch_commands tool is called: it resolves the token and
\* returns an error, or it enters its loop and runs up to the await of its
\* first command, or up to its return if it has no command.  The model
\* follows one call at a time.
ExecuteBatchCommands(workspaceToken, commands, stopOnError) ==
  /\ batch.pc \in {"idle", "done"}
  /\ \E h \in {execute_batch_commands(sessions, workspaceToken, commands,
                                       stopOnError, clock)} :
      \E b \in {IF h.returned THEN h.batch ELSE Loop(h.batch)} :
        /\ sessions' = h.sessions
        /\ batch' = b
        /\ response' = IF h.returned
                       THEN [tool |-> "execute_batch_commands",
                             isError |-> h.isError, text |-> h.text]
                       ELSE IF b.pc = "done" THEN BatchResponse(b)
                       ELSE NoResponse
        /\ last' = Call("execute_batch_commands", workspaceToken, "",
                        ~h.isError, h.batch.workingDir, <<>>, <<>>, 0, FALSE)
  /\ touch' = NoTouch
  /\ procs' = <<>>
  /\ error' = <<>>
  /\ written' = <<>>
  /\ UNCHANGED <<cleanupInterval, containers, configFile, disk, issued, clock,
                 gone, rmLog, arg, result, http>>

\* the executeDockerCommand the loop awaits ends: the handler pushes its
\* result and runs on to the await of the next command or to its return
BatchCommandEnds(psOk, ran) ==
  /\ batch.pc = "running"
  /\ \E r \in {executeDockerCommand(configFile, containers,
                                     batch.workspaceName,
                                     batch.commands[batch.next],
                                     batch.workingDir, psOk, ran)} :
      \E b \in {Loop(CommandEnded(batch, r))} :
        /\ batch' = b
        /\ procs' = r.procs
        /\ error' = r.error
        /\ response' = IF b.pc = "done" THEN BatchResponse(b) ELSE response
        /\ last' = Call("batchEnd", batch.tok, "", r.ok, batch.workingDir,
                        <<>>, <<>>, 0, ~r.ok)
  /\ touch' = NoTouch
  /\ UNCHANGED <<cleanupInterval, containers, configFile, sessions, disk,
                 issued, clock, gone, rmLog, written, arg, result, http>>

\* applyTemplateVariables(template, variables) on the arguments under test
ApplyTemplateVariables ==
  /\ arg.fn = "applyTemplateVariables"
  /\ ~result.done
  /\ result' = [done |-> TRUE,
                 value |-> applyTemplateVariables(arg.template, arg.variables)]
  /\ last' = Call("applyTemplateVariables", 0, "", TRUE, NoPath, <<>>, <<>>,
                  0, FALSE)
  /\ UNCHANGED <<outside, configFile, sessions, disk, issued, clock, gone,
                 touch, rmLog, response, written, batch, arg,
                 http>>

\* validateFilePath(workspaceDir, filePath) on the arguments under test
ValidateFilePath ==
  /\ arg.fn = "validateFilePath"
  /\ ~result.done
  /\ result' = [done |-> TRUE, value |-> validateFilePath(arg.root, arg.path)]
  /\ last' = Call("validateFilePath", 0, "", TRUE, NoPath, <<>>, <<>>, 0, FALSE)
  /\ UNCHANGED <<outside, configFile, sessions, disk, issued, clock, gone,
                 touch, rmLog, response, written, batch, arg,
                 http>>

\* the values the clock takes
ClockValues == {k * TickMs : k \in 0..MaxTicks}

\* the times a caller passes to the sweep: the clock's values, the
\* millisecond before the first timeout and the default timeout
SweepTimes == ClockValues \cup {TickMs - 1, TickMs, DEFAULT_IDLE_TIMEOUT}

\* the timeouts a test sets
TimeoutValues == {0, 300000}

\* the outcomes of openWorkspace's file operations: <<mkOk, cpOk>>
OpenOutcomes(workspaceName) ==
  IF \E workspace \in getWorkspaceByName(configFile, workspaceName) :
       CopyEnabled(workspace)
  THEN {<<TRUE, TRUE>>, <<TRUE, FALSE>>, <<FALSE, TRUE>>}
  ELSE {<<TRUE, TRUE>>}

\* the live tokens whose close would try to delete a temporary directory
NeedsCleanup(S, D) ==
  {t \in DOMAIN S : S[t].isTempDir /\ S[t].workingDir \in D}

\* the outcomes of the deletions a call attempts: rmOk[t] is FALSE for the
\* tokens whose directory cannot be deleted
RmOutcomes(attempted) ==
  {[t \in Tokens |-> t \notin failing] : failing \in SUBSET attempted}

Next ==
  \/ Tick
  \/ \E workspaceName \in WorkspaceNames :
       \E o \in OpenOutcomes(workspaceName) :
         OpenWorkspace(workspaceName, o[1], o[2])
  \/ \E workspaceToken \in Tokens : workspaceTokenExists(workspaceToken)
  \/ \E workspaceToken \in Tokens : getWorkspaceNameForWorkspaceToken(workspaceToken)
  \/ \E workspaceToken \in Tokens : getWorkingDirForWorkspaceToken(workspaceToken)
  \/ \E workspaceToken \in Tokens : getWorkspaceTokenInfo(workspaceToken)
  \/ \E workspaceToken \in Tokens :
       \E rmOk \in RmOutcomes(NeedsCleanup(sessions, disk) \cap {workspaceToken}) :
         CloseWorkspace(workspaceToken, rmOk[workspaceToken])
  \/ \E currentTime \in SweepTimes :
       \E rmOk \in RmOutcomes({t \in NeedsCleanup(sessions, disk) :
                                  IsIdle(sessions[t], currentTime)}) :
         Sweep(currentTime, rmOk)
  \/ \E n \in Tokens : ExternalRemove(n)

Spec == Init /\ [][Next]_vars

\* the timer fires
TimerFire ==
  \E rmOk \in RmOutcomes({t \in NeedsCleanup(sessions, disk) :
                             IsIdle(sessions[t], clock)}) :
    TimerSweep(rmOk)

\* the workspaces the callers of the running server open
LiveNames == {"plain", "copy", "never"}

\* the store in a running server: its callers, the idle cleanup and its
\* timer.  The timer fires as long as it is set, and time passes.
NextLive ==
  \/ Tick
  \/ \E workspaceName \in LiveNames :
       \E o \in OpenOutcomes(workspaceName) :
         OpenWorkspace(workspaceName, o[1], o[2])
  \/ \E workspaceToken \in Tokens : getWorkingDirForWorkspaceToken(workspaceToken)
  \/ \E workspaceToken \in Tokens :
       \E rmOk \in RmOutcomes(NeedsCleanup(sessions, disk) \cap {workspaceToken}) :
         CloseWorkspace(workspaceToken, rmOk[workspaceToken])
  \/ StartIdleWorkspaceCleanup
  \/ StopIdleWorkspaceCleanup
  \/ TimerFire

SpecLive ==
  Init /\ [][NextLive]_vars /\ WF_vars(Tick) /\ WF_vars(TimerFire)

\* the execution of commands: the module has just been loaded and the
\* configuration file registers the workspaces of ExecConfig
InitExec ==
  /\ configFile = ExecConfig
  /\ sessions = <<>>
  /\ disk = {workspaceDir}
  /\ issued = 0
  /\ clock = 0
  /\ gone = {}
  /\ last = NoCall
  /\ touch = NoTouch
  /\ rmLog = <<>>
  /\ cleanupInterval = FALSE
  /\ containers = {}
  /\ procs = <<>>
  /\ error = <<>>
  /\ response = NoResponse
  /\ written = <<>>
  /\ batch = NoBatch
  /\ arg = <<>>
  /\ result = <<>>
  /\ http = NoHttp

NextExec ==
  \/ \E workspaceName \in ExecNames, command \in Commands, hostDir \in HostDirs,
        psOk \in BOOLEAN, ran \in RunOutcomes :
       ExecuteDockerCommand(workspaceName, command, hostDir, psOk, ran)
  \/ \E containerName \in ContainerNames : ContainerStart(containerName)
  \/ \E containerName \in ContainerNames : ContainerStop(containerName)

SpecExec == InitExec /\ [][NextExec]_vars

\* the server: the module has just been loaded, the configuration file
\* registers the workspaces of ServerConfig and the container they name is
\* running
InitServer ==
  /\ configFile = ServerConfig
  /\ sessions = <<>>
  /\ disk = {workspaceDir}
  /\ issued = 0
  /\ clock = 0
  /\ gone = {}
  /\ last = NoCall
  /\ touch = NoTouch
  /\ rmLog = <<>>
  /\ cleanupInterval = FALSE
  /\ containers = {"c1"}
  /\ procs = <<>>
  /\ error = <<>>
  /\ response = NoResponse
  /\ written = <<>>
  /\ batch = NoBatch
  /\ arg = <<>>
  /\ result = <<>>
  /\ http = NoHttp

\* the commands the callers of the tools run
ServerCommands == {<<"ls">>}

\* the outcomes of the processes of one execution, <<psOk, ran>>: all
\* succeed, the command fails, docker ps fails
ExecOutcomes == {<<TRUE, "ok">>, <<TRUE, "failed">>, <<FALSE, "ok">>}

\* the file paths the callers of the tools write to: a file of the working
\* directory, and ../2rr, which is outside every working directory but the
\* second temporary directory, whose path it is
InsidePath == <<"r">>
OutsidePath == <<".", ".", sep, "2", "r", "r">>
HandlerPaths == {InsidePath, OutsidePath}

\* the lists of files the callers pass to write_batch_files
HandlerFiles ==
  {<<InsidePath, OutsidePath>>, <<OutsidePath, InsidePath>>,
   <<InsidePath, InsidePath>>, <<OutsidePath, OutsidePath>>}

\* the tools the server offers and the idle sweep; the directories of the
\* sessions that leave the map are deleted without failure
NextServer ==
  \/ \E workspaceName \in ServerNames :
       \E o \in OpenOutcomes(workspaceName) :
         OpenWorkspace(workspaceName, o[1], o[2])
  \/ \E workspaceToken \in Tokens : CloseWorkspace(workspaceToken, TRUE)
  \/ Sweep(DEFAULT_IDLE_TIMEOUT, [t \in Tokens |-> TRUE])
  \/ \E workspaceToken \in Tokens, command \in ServerCommands,
        x \in ExecOutcomes :
       ExecuteCommand(workspaceToken, command, x[1], x[2])
  \/ \E workspaceToken \in Tokens, filePath \in HandlerPaths,
        wrOk \in BOOLEAN :
       WriteFile(workspaceToken, filePath, wrOk)
  \/ \E workspaceToken \in Tokens, files \in HandlerFiles,
        stopOnError \in BOOLEAN, failAt \in 0..1 :
       WriteBatchFiles(workspaceToken, files, stopOnError, failAt)

SpecServer == InitServer /\ [][NextServer]_vars

\* the keys of the template variables under test, command and network,
\* in the order of the object executeWithDockerImage builds
CommandKey == <<"c">>
NetworkKey == <<"n">>

\* the pieces the templates under test are put together from
TemplatePieces ==
  {Placeholder(CommandKey), Placeholder(NetworkKey), <<"x">>, <<"{">>}

\* the texts of a sequence of texts, one after the other
RECURSIVE Concat(_)
Concat(texts) ==
  IF texts = <<>> THEN <<>> ELSE Head(texts) \o Concat(Tail(texts))

Templates ==
  UNION {{Concat(q) : q \in [1..k -> TemplatePieces]} : k \in 0..MaxPieces}

\* the command texts under test: a plain one, two with a dollar sign and one
\* with the text of a placeholder in it
CommandValues ==
  {<<"l">>, <<"$", "$">>, <<"l", "$", "&">>, Placeholder(NetworkKey)}

\* a variable whose value is defined, and one whose value is undefined
Defined(key, value) == [key |-> key, defined |-> TRUE, value |-> value]
Undefined(key) == [key |-> key, defined |-> FALSE, value |-> <<>>]

\* the variable objects under test: the command is a string, the network
\* may be undefined
VariableObjects ==
  {<<Defined(CommandKey, c), n>> :
     c \in CommandValues,
     n \in {Defined(NetworkKey, <<"w">>), Undefined(NetworkKey)}}

\* no function has been applied yet
NotApplied == [done |-> FALSE, value |-> <<>>]

\* applyTemplateVariables is about to be applied to a template and an
\* object of variables
InitTemplate ==
  /\ configFile = ExecConfig
  /\ sessions = <<>>
  /\ disk = {workspaceDir}
  /\ issued = 0
  /\ clock = 0
  /\ gone = {}
  /\ last = NoCall
  /\ touch = NoTouch
  /\ rmLog = <<>>
  /\ cleanupInterval = FALSE
  /\ containers = {}
  /\ procs = <<>>
  /\ error = <<>>
  /\ response = NoResponse
  /\ written = <<>>
  /\ batch = NoBatch
  /\ arg \in {[fn |-> "applyTemplateVariables", template |-> t,
                variables |-> v] : t \in Templates, v \in VariableObjects}
  /\ result = NotApplied
  /\ http = NoHttp

NextTemplate == ApplyTemplateVariables

SpecTemplate == InitTemplate /\ [][NextTemplate]_vars

\* the characters of the paths under test: the separator, the dot and the
\* characters of two file names, r and 2
PathChars == {sep, ".", "r", "2"}

\* the texts of at most n characters
TextsUpTo(n) == UNION {[1..k -> PathChars] : k \in 0..n}

\* the workspace directories under test: a directory, a directory in it and
\* the root of the file system
Roots == {<<sep, "r">>, <<sep, "r", sep, "2">>, <<sep>>}

\* the file paths under test: every short text, and r/../../2, a path that
\* leaves the directory after it entered a directory in it
FilePaths ==
  TextsUpTo(MaxPathLen) \cup {<<"r", sep, ".", ".", sep, ".", ".", sep, "2">>}

\* validateFilePath is about to be applied to a directory and a path
InitPath ==
  /\ configFile = ExecConfig
  /\ sessions = <<>>
  /\ disk = {workspaceDir}
  /\ issued = 0
  /\ clock = 0
  /\ gone = {}
  /\ last = NoCall
  /\ touch = NoTouch
  /\ rmLog = <<>>
  /\ cleanupInterval = FALSE
  /\ containers = {}
  /\ procs = <<>>
  /\ error = <<>>
  /\ response = NoResponse
  /\ written = <<>>
  /\ batch = NoBatch
  /\ arg \in {[fn |-> "validateFilePath", root |-> d, path |-> f] :
                d \in Roots, f \in FilePaths}
  /\ result = NotApplied
  /\ http = NoHttp

NextPath == ValidateFilePath

SpecPath == InitPath /\ [][NextPath]_vars

\* the workspace the callers of execute_batch_commands open
BatchNames == {"launch"}

\* the commands they put in their lists
BatchCommands == {<<"ls">>, <<"pwd">>}

\* the lists of commands they pass
CommandLists == UNION {[1..k -> BatchCommands] : k \in 0..MaxCommands}

\* the execute_batch_commands tool over the token store: while the handler
\* awaits a command, workspaces are opened and closed
NextBatch ==
  \/ \E workspaceName \in BatchNames :
       \E o \in OpenOutcomes(workspaceName) :
         OpenWorkspace(workspaceName, o[1], o[2])
  \/ \E workspaceToken \in Tokens : CloseWorkspace(workspaceToken, TRUE)
  \/ \E workspaceToken \in Tokens, commands \in CommandLists,
        stopOnError \in BOOLEAN :
       ExecuteBatchCommands(workspaceToken, commands, stopOnError)
  \/ \E ran \in {"ok", "failed"} : BatchCommandEnds(TRUE, ran)

SpecBatch == InitServer /\ [][NextBatch]_vars

\* the four tools that take a workspace token
ToolOps ==
  {"execute_command", "execute_batch_commands", "write_file",
   "write_batch_files"}

\* the workspace the callers of the four tools open: its sessions are
\* evicted by the sweep at DEFAULT_IDLE_TIMEOUT
ToolNames == {"launchCopy"}

\* the four tools called with every token, issued or not, while workspaces
\* are opened, closed and evicted and time passes; their processes and
\* writes succeed
NextTools ==
  \/ Tick
  \/ \E workspaceName \in ToolNames : OpenWorkspace(workspaceName, TRUE, TRUE)
  \/ \E workspaceToken \in Tokens : CloseWorkspace(workspaceToken, TRUE)
  \/ Sweep(DEFAULT_IDLE_TIMEOUT, [t \in Tokens |-> TRUE])
  \/ \E workspaceToken \in Tokens, command \in ServerCommands :
       ExecuteCommand(workspaceToken, command, TRUE, "ok")
  \/ \E workspaceToken \in Tokens :
       WriteFile(workspaceToken, InsidePath, TRUE)
  \/ \E workspaceToken \in Tokens :
       WriteBatchFiles(workspaceToken, <<InsidePath, InsidePath>>, TRUE, 0)
  \/ \E workspaceToken \in Tokens, command \in ServerCommands :
       ExecuteBatchCommands(workspaceToken, <<command>>, TRUE)
  \/ BatchCommandEnds(TRUE, "ok")

SpecTools == InitServer /\ [][NextTools]_vars

\* the four tools with their outcomes: commands that fail, paths that are
\* refused and writes that fail
NextResponses ==
  \/ \E workspaceName \in {"launch"} :
       OpenWorkspace(workspaceName, TRUE, TRUE)
  \/ \E workspaceToken \in Tokens, command \in ServerCommands,
        x \in ExecOutcomes :
       ExecuteCommand(workspaceToken, command, x[1], x[2])
  \/ \E workspaceToken \in Tokens, filePath \in HandlerPaths,
        wrOk \in BOOLEAN :
       WriteFile(workspaceToken, filePath, wrOk)
  \/ \E workspaceToken \in Tokens, files \in {<<InsidePath, OutsidePath>>,
                                                 <<InsidePath, InsidePath>>},
        stopOnError \in BOOLEAN, failAt \in 0..1 :
       WriteBatchFiles(workspaceToken, files, stopOnError, failAt)
  \/ \E workspaceToken \in Tokens, commands \in {<<<<"ls">>>>,
                                                    <<<<"ls">>, <<"pwd">>>>},
        stopOnError \in BOOLEAN :
       ExecuteBatchCommands(workspaceToken, commands, stopOnError)
  \/ \E ran \in {"ok", "failed"} : BatchCommandEnds(TRUE, ran)

SpecResponses == InitServer /\ [][NextResponses]_vars

\* the registry open_workspace is called on: a workspace as the add command
\* registers it, with its directory as path, and workspaces as the tests of
\* the handlers register them, with hostPath
InitOpen ==
  /\ configFile =
       [projects |->
         << [name |-> "added", path |-> workspaceDir, image |-> "img"],
            [name |-> "tested", path |-> workspaceDir,
             hostPath |-> workspaceDir, image |-> "img"],
            [name |-> "testedCopy", path |-> workspaceDir,
             hostPath |-> workspaceDir, image |-> "img", copy |-> TRUE] >>]
  /\ sessions = <<>>
  /\ disk = {workspaceDir}
  /\ issued = 0
  /\ clock = 0
  /\ gone = {}
  /\ last = NoCall
  /\ touch = NoTouch
  /\ rmLog = <<>>
  /\ cleanupInterval = FALSE
  /\ containers = {}
  /\ procs = <<>>
  /\ error = <<>>
  /\ response = NoResponse
  /\ written = <<>>
  /\ batch = NoBatch
  /\ arg = <<>>
  /\ result = <<>>
  /\ http = NoHttp

\* open_workspace and close, while the host directory comes and goes
NextOpen ==
  \/ \E workspaceName \in {"added", "tested", "testedCopy", "absent"} :
       \E o \in OpenOutcomes(workspaceName) :
         OpenWorkspaceTool(workspaceName, o[1], o[2])
  \/ \E workspaceToken \in Tokens : CloseWorkspace(workspaceToken, TRUE)
  \/ HostRemove
  \/ HostRestore

SpecOpen == InitOpen /\ [][NextOpen]_vars

\* no configuration file
NoFile == <<>>

\* no configuration file yet, and the configuration that is going to be
\* saved: a list of workspaces, with or without the debug flag
InitConfig ==
  /\ configFile = NoFile
  /\ sessions = <<>>
  /\ disk = {workspaceDir}
  /\ issued = 0
  /\ clock = 0
  /\ gone = {}
  /\ last = NoCall
  /\ touch = NoTouch
  /\ rmLog = <<>>
  /\ cleanupInterval = FALSE
  /\ containers = {}
  /\ procs = <<>>
  /\ error = <<>>
  /\ response = NoResponse
  /\ written = <<>>
  /\ batch = NoBatch
  /\ arg \in {[fn |-> "saveConfig", config |-> c, saved |-> FALSE] :
                c \in
                   LET entries ==
                         {[name |-> "a", path |-> workspaceDir,
                           image |-> "img"],
                          [name |-> "b", path |-> workspaceDir,
                           containerName |-> "c1"],
                          [name |-> "b", path |-> workspaceDir,
                           image |-> "img", copy |-> TRUE]}
                       lists == UNION {[1..k -> entries] : k \in 0..MaxEntries}
                   IN {[workspaces |-> l] : l \in lists}
                        \cup {[workspaces |-> l, debug |-> d] :
                                l \in lists, d \in BOOLEAN}}
  /\ result = NotApplied
  /\ http = NoHttp

NextConfig == SaveConfig \/ GetConfig

SpecConfig == InitConfig /\ [][NextConfig]_vars

\* the names given to codebox workspace add and remove
RegistryNames == {"a", "b"}

InitRegistry ==
  /\ configFile = NoFile
  /\ sessions = <<>>
  /\ disk = {workspaceDir}
  /\ issued = 0
  /\ clock = 0
  /\ gone = {}
  /\ last = NoCall
  /\ touch = NoTouch
  /\ rmLog = <<>>
  /\ cleanupInterval = FALSE
  /\ containers = {}
  /\ procs = <<>>
  /\ error = <<>>
  /\ response = NoResponse
  /\ written = <<>>
  /\ batch = NoBatch
  /\ arg = <<>>
  /\ result = <<>>
  /\ http = NoHttp

\* additions and removals from the command line, from no file on
NextRegistry ==
  \/ \E n \in RegistryNames, c \in BOOLEAN,
        keys \in SUBSET {"image", "containerName", "idleTimeout"} :
       AddWorkspace([name |-> n, copy |-> c]
                      @@ Restrict([image |-> "img", containerName |-> "c1",
                                   idleTimeout |-> 0], keys))
  \/ \E name \in RegistryNames : RemoveWorkspace(name)

SpecRegistry == InitRegistry /\ [][NextRegistry]_vars

\* the workspaces opened while the registry is changed
FrameNames == {"launch", "launchCopy"}

\* the store with its resolutions, closes and sweeps, time passing, and the
\* registry changed from the command line
NextFrame ==
  \/ Tick
  \/ \E workspaceName \in FrameNames : OpenWorkspace(workspaceName, TRUE, TRUE)
  \/ \E workspaceToken \in Tokens : getWorkspaceTokenInfo(workspaceToken)
  \/ \E workspaceToken \in Tokens : CloseWorkspace(workspaceToken, TRUE)
  \/ Sweep(DEFAULT_IDLE_TIMEOUT, [t \in Tokens |-> TRUE])
  \/ AddWorkspace([name |-> "launchCopy", copy |-> FALSE, image |-> "img2",
                   idleTimeout |-> 0])
  \/ \E name \in FrameNames : RemoveWorkspace(name)

SpecFrame == InitServer /\ [][NextFrame]_vars

\* the HTTP session ids clients present: those the server generates
Sids == 1..MaxHttp

\* the HTTP server at its start, with the idle timeout of --idle-timeout;
\* the registry holds a copied workspace whose sessions the sweep at
\* DEFAULT_IDLE_TIMEOUT evicts
InitHttp ==
  /\ configFile =
       [projects |->
         << [name |-> "copied", path |-> workspaceDir,
             hostPath |-> workspaceDir, image |-> "img", copy |-> TRUE,
             idleTimeout |-> TickMs] >>]
  /\ sessions = <<>>
  /\ disk = {workspaceDir}
  /\ issued = 0
  /\ clock = 0
  /\ gone = {}
  /\ last = NoCall
  /\ touch = NoTouch
  /\ rmLog = <<>>
  /\ cleanupInterval = FALSE
  /\ containers = {}
  /\ procs = <<>>
  /\ error = <<>>
  /\ response = NoResponse
  /\ written = <<>>
  /\ batch = NoBatch
  /\ arg = <<>>
  /\ result = <<>>
  /\ http \in {[NoHttp EXCEPT !.IDLE_TIMEOUT = t] : t \in {0, TickMs}}

\* the HTTP server with its sessions and its scavenger; the tool that is
\* called is execute_command, with a token no workspace has
NextHttp ==
  \/ Tick
  \/ HttpInitialize
  \/ \E sid \in Sids : HttpGet(sid)
  \/ \E sid \in Sids : HttpDelete(sid)
  \/ Scavenge
  \/ \E sid \in Sids, command \in ServerCommands :
       PostExecuteCommand(sid, 1, command)

SpecHttp == InitHttp /\ [][NextHttp]_vars

\* the HTTP server started with --idle-timeout 0
InitScope ==
  /\ InitHttp
  /\ http.IDLE_TIMEOUT = 0

\* the tools called in HTTP sessions that are closed by their clients and
\* by the scavenger, and the idle sweep of the workspaces
NextScope ==
  \/ Tick
  \/ HttpInitialize
  \/ \E sid \in Sids : HttpDelete(sid)
  \/ Scavenge
  \/ \E sid \in Sids : PostOpenWorkspace(sid, "copied", TRUE, TRUE)
  \/ \E sid \in Sids, workspaceToken \in Tokens :
       PostCloseWorkspace(sid, workspaceToken)
  \/ \E sid \in Sids, workspaceToken \in Tokens, command \in ServerCommands :
       PostExecuteCommand(sid, workspaceToken, command)
  \/ Sweep(DEFAULT_IDLE_TIMEOUT, [t \in Tokens |-> TRUE])

SpecScope == InitScope /\ [][NextScope]_vars

\* the store driven by its tests, which also use the testing functions
NextTest ==
  \/ Next
  \/ \E workspaceToken \in Tokens, time \in ClockValues :
       SetLastAccessTime(workspaceToken, time)
  \/ \E workspaceToken \in Tokens, timeout \in TimeoutValues :
       SetIdleTimeout(workspaceToken, timeout)

SpecTest == Init /\ [][NextTest]_vars

(***************************************************************************)
(* Properties                                                              *)
(***************************************************************************)
Range(q) == {q[i] : i \in DOMAIN q}

\* the position of step x in the steps q of a call (0 when it was not taken)
Pos(q, x) ==
  IF x \in Range(q) THEN CHOOSE i \in DOMAIN q : q[i] = x ELSE 0

\* C1: a sweep at time now closes, and returns, exactly the live tokens with
\* idleTimeout > 0 and now - lastAccessTime >= idleTimeout; every other live
\* token, in particular one whose idleTimeout is not > 0, stays in the map
\* with its record unchanged.
C1_SweepClosesExactlyPositiveExpired ==
  [][last'.op = "sweep" =>
       LET expected ==
             {t \in DOMAIN sessions :
                /\ sessions[t].idleTimeout > 0
                /\ last'.now - sessions[t].lastAccessTime >= sessions[t].idleTimeout}
       IN /\ Range(last'.closed) = expected
          /\ DOMAIN sessions' = DOMAIN sessions \ expected
          /\ \A t \in DOMAIN sessions' : sessions'[t] = sessions[t]]_vars

\* C2: a session whose idleTimeout is 0 is never removed by a sweep, whatever
\* now and lastAccessTime are: the sweep leaves its record as it is and does
\* not return it, and it leaves the map only in a closeWorkspace on its token.
C2_ZeroTimeoutNeverSwept ==
  [][\A t \in DOMAIN sessions :
       sessions[t].idleTimeout = 0 =>
         /\ last'.op = "sweep" =>
              /\ t \in DOMAIN sessions'
              /\ sessions'[t] = sessions[t]
              /\ t \notin Range(last'.closed)
         /\ t \notin DOMAIN sessions' => last'.op = "close" /\ last'.tok = t]_vars

\* a sweep has closed some session while a session with idleTimeout 0 that
\* had been idle for the default timeout or longer is still in the map
C2_Witness ==
  /\ last.op = "sweep"
  /\ last.closed # <<>>
  /\ \E t \in DOMAIN sessions :
       /\ sessions[t].idleTimeout = 0
       /\ last.now - sessions[t].lastAccessTime >= DEFAULT_IDLE_TIMEOUT

\* C3: a token resolved at time touch.at is not closed by the sweep that
\* follows at a time now with now - touch.at < idleTimeout, also when the
\* access time the resolution replaced was old enough for that sweep to
\* close it.
C3_ResolvedTokenSurvivesSweep ==
  (last.op = "sweep" /\ touch.tok # 0 /\ last.now - touch.at < touch.idleTimeout)
    => /\ touch.tok \in DOMAIN sessions
       /\ touch.tok \notin Range(last.closed)

\* a sweep has spared a token it would have closed on the access time that
\* the resolution before it replaced
C3_Witness ==
  /\ last.op = "sweep"
  /\ touch.tok \in DOMAIN sessions
  /\ touch.idleTimeout > 0
  /\ last.now - touch.at < touch.idleTimeout
  /\ last.now - touch.before >= touch.idleTimeout

C5_CloseRemovesTokenDespiteFailure ==
  [][/\ (last'.op = "close" /\ last'.tok \in DOMAIN sessions)
          => /\ last'.tok \notin DOMAIN sessions'
             /\ last'.ok
             /\ ~last'.threw
     /\ \A t \in gone :
          /\ t \notin DOMAIN sessions'
          /\ (last'.op \in ResolveOps /\ last'.tok = t) => ~last'.ok]_vars

\* a closeWorkspace whose deletion failed: the directory is still on disk and
\* the token is gone
C5_Witness ==
  /\ last.op = "close"
  /\ last.ok
  /\ "removeDirectory" \in Range(last.steps)
  /\ last.dir \in disk
  /\ last.tok \notin DOMAIN sessions

\* C6: closeWorkspace returns true if and only if the token was in the map
\* when it was called; on a token that is not in the map, and so on the
\* second of two closes of one token, it returns false and changes neither
\* the map nor the disk.
C6_CloseTrueIffLive ==
  [][last'.op = "close" =>
       /\ last'.ok <=> last'.tok \in DOMAIN sessions
       /\ last'.tok \notin DOMAIN sessions =>
            sessions' = sessions /\ disk' = disk
       /\ (last.op = "close" /\ last.tok = last'.tok) =>
            ~last'.ok /\ sessions' = sessions /\ disk' = disk]_vars

\* a closeWorkspace has returned false for a token that had been in the map,
\* while the directory its session worked in is still on disk
C6_Witness ==
  /\ last.op = "close"
  /\ ~last.ok
  /\ last.tok \in gone
  /\ TempPath(last.tok) \in disk

\* C7: for a token that is not in the map, workspaceTokenExists,
\* getWorkspaceNameForWorkspaceToken, getWorkingDirForWorkspaceToken and
\* closeWorkspace report not-found and leave the whole map, the access time
\* of every other session included, and the disk unchanged.
C7_NotFoundChangesNothing ==
  [][(/\ last'.op \in {"exists", "getName", "getWorkingDir", "close"}
      /\ last'.tok \notin DOMAIN sessions)
       => /\ ~last'.ok
          /\ sessions' = sessions
          /\ disk' = disk]_vars

\* a resolver has reported not-found while another session, whose access
\* time is older than the clock, is in the map
C7_Witness ==
  /\ last.op = "getWorkingDir"
  /\ ~last.ok
  /\ \E t \in DOMAIN sessions : sessions[t].lastAccessTime < clock

\* C8: when openWorkspace returns null, because the name is not registered
\* or because making the copy threw, the map is what it was before the call.
C8_FailedOpenLeavesMap ==
  [][(last'.op = "open" /\ ~last'.ok) => sessions' = sessions]_vars

\* an openWorkspace whose copy threw has returned null while another session
\* is in the map
C8_Witness ==
  /\ last.op = "open"
  /\ ~last.ok
  /\ "copyDirectory" \in Range(last.steps)
  /\ DOMAIN sessions # {}

C10_WorkingDirFollowsCopyFlag ==
  [][(last'.op = "open" /\ last'.ok) =>
       /\ last'.tok \in DOMAIN sessions'
       /\ LET workspace ==
                CHOOSE w \in getWorkspaceByName(configFile, last'.name) : TRUE
              info == sessions'[last'.tok]
          IN /\ info.workingDir = last'.dir
             /\ IF CopyEnabled(workspace)
                THEN /\ info.isTempDir
                     /\ info.workingDir # workspace.path
                     /\ info.workingDir \notin disk
                     /\ info.workingDir \in disk'
                ELSE /\ ~info.isTempDir
                     /\ info.workingDir = workspace.path]_vars

\* a copy-mode session has been opened next to a session that works in the
\* host directory
C10_Witness ==
  /\ last.op = "open"
  /\ last.ok
  /\ sessions[last.tok].isTempDir
  /\ \E t \in DOMAIN sessions : ~sessions[t].isTempDir

\* the host paths of the registered workspaces
HostPaths == {w.path : w \in Range(getWorkspaces(configFile))}

\* C11: any two distinct live sessions with isTempDir true work in different
\* directories, and no session with isTempDir true works in the host path of
\* a registered workspace; so two sessions opened on one copy-mode workspace
\* work in two directories.
C11_TempDirsExclusive ==
  /\ \A t1 \in DOMAIN sessions : \A t2 \in DOMAIN sessions \ {t1} :
       (sessions[t1].isTempDir /\ sessions[t2].isTempDir)
         => sessions[t1].workingDir # sessions[t2].workingDir
  /\ \A t \in DOMAIN sessions :
       sessions[t].isTempDir => sessions[t].workingDir \notin HostPaths

\* two sessions opened on the same copy-mode workspace are in the map
C11_Witness ==
  \E t1 \in DOMAIN sessions : \E t2 \in DOMAIN sessions \ {t1} :
    /\ sessions[t1].workspaceName = "copy" /\ sessions[t1].isTempDir
    /\ sessions[t2].workspaceName = "copy" /\ sessions[t2].isTempDir

\* the calls that take sessions out of the map
CloseOps == {"close", "sweep", "timer"}

\* C12 as claimed: when a session leaves the map in a closeWorkspace or in a
\* sweep, its working directory does not exist afterwards if isTempDir is
\* true, and is neither deleted nor the target of a deletion if isTempDir is
\* false.
C12_DirDeletedIffTemp ==
  [][last'.op \in CloseOps =>
       \A t \in DOMAIN sessions \ DOMAIN sessions' :
         LET d == sessions[t].workingDir
         IN IF sessions[t].isTempDir
            THEN d \notin disk'
            ELSE /\ d \in disk => d \in disk'
                 /\ CallsOn(rmLog', d) = CallsOn(rmLog, d)]_vars

\* C12 as amended: when a session leaves the map in a closeWorkspace or in a
\* sweep, the deletion of its working directory is attempted, once, if and
\* only if isTempDir is true and the directory exists; the temporary
\* directory of a copy-mode session does not exist afterwards unless that
\* deletion failed, and the host directory of a non-copy session is neither
\* deleted nor the target of a deletion.
C12_DeletionAttemptedIffTemp ==
  [][last'.op \in CloseOps =>
       \A t \in DOMAIN sessions \ DOMAIN sessions' :
         LET d == sessions[t].workingDir
             before == CallsOn(rmLog, d)
             after == CallsOn(rmLog', d)
         IN IF sessions[t].isTempDir
            THEN /\ Len(after) = Len(before) + (IF d \in disk THEN 1 ELSE 0)
                 /\ d \in disk' => (d \in disk /\ ~after[Len(after)])
            ELSE /\ d \in disk => d \in disk'
                 /\ after = before]_vars

\* a sweep has closed a copy-mode session and a session that works in the
\* host directory: the deletion of the temporary directory failed and it is
\* still on disk, and so is the host directory
C12_Witness ==
  /\ last.op = "sweep"
  /\ Len(last.closed) = 2
  /\ \E n \in Tokens :
       /\ n \in Range(last.closed)
       /\ TempPath(n) \in disk
       /\ CallsOn(rmLog, TempPath(n)) = <<FALSE>>
  /\ workspaceDir \in disk
  /\ workspaceDir \notin DOMAIN rmLog

\* C13: the store never deletes the temporary directory of a session that
\* is in the map: in every step of the store the directory of a session that
\* stays in the map stays on disk and has never been the target of a
\* removeDirectory call; a directory is the target of at most one such call,
\* and that call is made in a closeWorkspace or a sweep that takes the one
\* session that works in it out of the map.
C13_TempDirDeletedOnlyAtClose ==
  [][/\ \A t \in DOMAIN sessions \cap DOMAIN sessions' :
          sessions[t].isTempDir =>
            /\ (last'.op # "externalRemove" /\ sessions[t].workingDir \in disk)
                  => sessions[t].workingDir \in disk'
            /\ CallsOn(rmLog', sessions[t].workingDir) = <<>>
     /\ \A d \in DOMAIN rmLog' :
          /\ Len(rmLog'[d]) <= 1
          /\ CallsOn(rmLog', d) # CallsOn(rmLog, d) =>
               /\ last'.op \in CloseOps
               /\ Cardinality({t \in DOMAIN sessions \ DOMAIN sessions' :
                                 /\ sessions[t].isTempDir
                                 /\ sessions[t].workingDir = d}) = 1
               /\ \A t \in DOMAIN sessions : sessions[t].workingDir = d =>
                    /\ t \notin DOMAIN sessions'
                    /\ last'.op = "close" => last'.tok = t]_vars

\* a closeWorkspace has deleted the temporary directory of its session, in
\* the one call made on that directory, while another copy-mode session is
\* in the map and its directory is on disk
C13_Witness ==
  /\ last.op = "close"
  /\ last.tok \in gone
  /\ last.dir \notin disk
  /\ CallsOn(rmLog, last.dir) = <<TRUE>>
  /\ \E t \in DOMAIN sessions :
       /\ sessions[t].isTempDir
       /\ sessions[t].workingDir \in disk
       /\ sessions[t].lastAccessTime < clock

\* C14: the session a successful openWorkspace has just stored has the
\* idleTimeout of the descriptor when the descriptor sets one, 0 included,
\* and 600000 when it sets none; its lastAccessTime is the clock at the
\* open.
C14_OpenStoresTimeoutAndClock ==
  (last.op = "open" /\ last.ok) =>
    /\ last.tok \in DOMAIN sessions
    /\ \A w \in getWorkspaceByName(configFile, last.name) :
         /\ "idleTimeout" \in DOMAIN w =>
              sessions[last.tok].idleTimeout = w.idleTimeout
         /\ "idleTimeout" \notin DOMAIN w =>
              sessions[last.tok].idleTimeout = 600000
    /\ sessions[last.tok].lastAccessTime = clock

\* a workspace whose descriptor sets idleTimeout 0 has been opened after
\* the clock advanced, next to a session whose descriptor sets none
C14_Witness ==
  /\ last.op = "open"
  /\ last.ok
  /\ last.name = "never"
  /\ sessions[last.tok].idleTimeout = 0
  /\ sessions[last.tok].lastAccessTime > 0
  /\ \E t \in DOMAIN sessions :
       sessions[t].workspaceName = "plain" /\ sessions[t].idleTimeout = 600000

\* C15: the clock never goes back, and in every step the lastAccessTime of
\* a session in the map is the clock at the call when the step is the
\* openWorkspace that stored it or a successful resolution of its token, and
\* is what it was in every other step; so it is the clock at the last
\* completed successful resolution (at the open when there was none) and it
\* never decreases.
C15_AccessTimeIsLastResolution ==
  [][/\ clock <= clock'
     /\ \A t \in DOMAIN sessions' :
          IF t \notin DOMAIN sessions
          THEN /\ last'.op = "open" /\ last'.tok = t
               /\ sessions'[t].lastAccessTime = clock'
          ELSE /\ sessions[t].lastAccessTime <= sessions'[t].lastAccessTime
               /\ sessions'[t].lastAccessTime <= clock'
               /\ IF last'.op \in ResolveOps /\ last'.tok = t
                  THEN last'.ok /\ sessions'[t].lastAccessTime = clock'
                  ELSE sessions'[t].lastAccessTime = sessions[t].lastAccessTime]_vars

\* a resolution has replaced an older access time by the clock, while
\* another session keeps the access time of its open
C15_Witness ==
  /\ last.op \in ResolveOps
  /\ last.ok
  /\ touch.tok = last.tok
  /\ touch.before < clock
  /\ sessions[last.tok].lastAccessTime = clock
  /\ \E t \in DOMAIN sessions \ {last.tok} : sessions[t].lastAccessTime < clock

\* C16: the token a successful openWorkspace returns was not in the map
\* when it was called and had never been in it; the call adds the record of
\* that token and leaves the record of every session that was in the map as
\* it was.
C16_OpenAddsOneFreshToken ==
  [][(last'.op = "open" /\ last'.ok) =>
       /\ last'.tok \notin DOMAIN sessions
       /\ last'.tok \notin gone
       /\ DOMAIN sessions' = DOMAIN sessions \cup {last'.tok}
       /\ \A t \in DOMAIN sessions : sessions'[t] = sessions[t]]_vars

\* a workspace that has a live session has been opened again: the map
\* holds two sessions of it under two tokens
C16_Witness ==
  /\ last.op = "open"
  /\ last.ok
  /\ \E t \in DOMAIN sessions \ {last.tok} :
       /\ sessions[t].workspaceName = last.name
       /\ sessions[t].lastAccessTime < sessions[last.tok].lastAccessTime

\* the last value of the clock
MaxClock == MaxTicks * TickMs

LastWorkspace == getWorkspaceByName(configFile, last.name)

\* the processes of the last executeDockerCommand that run the caller's
\* command
CommandProcs ==
  {i \in DOMAIN procs : procs[i].prog \in {"docker exec", "docker run"}}

\* C18: executeDockerCommand on a registered workspace whose descriptor has
\* neither containerName nor image throws an Error that says that no image
\* or container is configured, and starts no external process.
C18_NeitherTargetFails ==
  (last.op = "execute") =>
    \A w \in LastWorkspace :
      (~Truthy(w, "containerName") /\ ~Truthy(w, "image")) =>
        /\ ~last.ok
        /\ last.threw
        /\ procs = <<>>
        /\ error = <<"Docker execution failed",
                     <<"No Docker image or container configured for this workspace">>,
                     "", "">>

\* executeDockerCommand has failed on the workspace with neither target
\* while both containers are running
C18_Witness ==
  /\ last.op = "execute"
  /\ last.name = "bare"
  /\ ~last.ok
  /\ containers = ContainerNames

\* C19 as claimed: executeDockerCommand on a workspace whose descriptor has
\* both containerName and image fails and runs the command in neither
\* target.
C19_BothTargetsFails ==
  (last.op = "execute") =>
    \A w \in LastWorkspace :
      (Truthy(w, "containerName") /\ Truthy(w, "image")) =>
        /\ ~last.ok
        /\ CommandProcs = {}

\* C20: in executeDockerCommand on a workspace with a containerName, when
\* the running-check failed or reported no running container the call
\* throws an Error that names the container and the caller's command is not
\* invoked; the command is invoked only after a running-check that did not
\* fail and reported the container, which is then running.
C20_AttachChecksRunningFirst ==
  (last.op = "execute") =>
    \A w \in LastWorkspace :
      Truthy(w, "containerName") =>
        /\ Len(procs) >= 1
        /\ procs[1].prog = "docker ps"
        /\ procs[1].filter = w.containerName
        /\ (procs[1].failed \/ procs[1].stdout = <<>>
             \/ w.containerName \notin containers) =>
             /\ ~last.ok
             /\ CommandProcs = {}
             /\ error[1] = "Docker execution failed"
             /\ error[2] = <<"Container not found or not running",
                             w.containerName>>
        /\ CommandProcs # {} =>
             /\ CommandProcs = {2}
             /\ procs[2].prog = "docker exec"
             /\ procs[2].containerName = w.containerName
             /\ ~procs[1].failed
             /\ procs[1].stdout = <<w.containerName>>
             /\ w.containerName \in containers

\* executeDockerCommand has failed on a workspace whose container is not
\* running while another container is: only the running-check was started
C20_Witness ==
  /\ last.op = "execute"
  /\ last.name = "attach"
  /\ ~last.ok
  /\ containers = {"c2"}
  /\ Len(procs) = 1
  /\ error[2] = <<"Container not found or not running", "c1">>

\* the descriptor the configuration file registers under a name that is
\* registered
Registered(workspaceName) ==
  CHOOSE w \in getWorkspaceByName(configFile, workspaceName) : TRUE

\* C21: in launch mode the directory bound to the path variable of the run
\* command, which the default invocation mounts, is the working directory of
\* the session of the token the execute_command tool was called with; for a
\* session that works on a copy it is the session's temporary directory and
\* not the host path registered for the workspace.
C21_LaunchMountsWorkingDir ==
  last.op = "execute_command" =>
    \A i \in DOMAIN procs :
      procs[i].prog = "docker run" =>
        /\ last.tok \in DOMAIN sessions
        /\ procs[i].path = sessions[last.tok].workingDir
        /\ sessions[last.tok].isTempDir =>
             /\ procs[i].path = TempPath(last.tok)
             /\ procs[i].path #
                  Registered(sessions[last.tok].workspaceName).path

\* a command was launched for a session that works on a copy, and its mount
\* is the copy
C21_Witness ==
  /\ last.op = "execute_command"
  /\ last.tok \in DOMAIN sessions
  /\ sessions[last.tok].workspaceName = "launchCopy"
  /\ sessions[last.tok].isTempDir
  /\ ~response.isError
  /\ Len(procs) = 1
  /\ procs[1].prog = "docker run"
  /\ procs[1].template = "default"
  /\ procs[1].path = TempPath(last.tok)
  /\ workspaceDir # TempPath(last.tok)

\* C22: a session of a workspace that is configured with an existing container
\* works on the registered host path and not on a temporary copy, and the
\* openWorkspace that made it created no temporary directory, whatever the
\* copy option of the descriptor.
C22_ContainerWorkspaceIgnoresCopy ==
  /\ \A t \in DOMAIN sessions :
       Truthy(Registered(sessions[t].workspaceName), "containerName") =>
         /\ ~sessions[t].isTempDir
         /\ sessions[t].workingDir = Registered(sessions[t].workspaceName).path
  /\ (last.op = "open" /\ Truthy(Registered(last.name), "containerName")) =>
       last.steps = <<"register">>

\* C23: when the process of the command fails, executeDockerCommand throws
\* one Error whose message holds the message of the failure, what the process
\* wrote to standard output and, when it wrote to standard error, that too.
C23_FailureKeepsCapturedOutput ==
  (last.op = "execute") =>
    \A i \in CommandProcs :
      procs[i].failed =>
        /\ ~last.ok
        /\ last.threw
        /\ Len(error) = 4
        /\ error[1] = "Docker execution failed"
        /\ error[2] = <<"Command failed", procs[i].prog>>
        /\ error[3] = procs[i].stdout
        /\ procs[i].stderr # "" => error[4] = procs[i].stderr

\* a launched command has failed after it wrote to both streams, and the
\* Error holds both
C23_Witness ==
  /\ last.op = "execute"
  /\ last.name = "launch"
  /\ last.threw
  /\ Len(procs) = 1
  /\ procs[1].prog = "docker run"
  /\ procs[1].failed
  /\ error = <<"Docker execution failed", <<"Command failed", "docker run">>,
               "partial out", "err">>

\* the text in which every placeholder of the template whose variable is
\* defined stands replaced by the value of the variable as it is, all at
\* once, from position i on
RECURSIVE Simultaneous(_, _, _)
Simultaneous(template, variables, i) ==
  IF i > Len(template) THEN <<>>
  ELSE LET hits == {k \in DOMAIN variables :
                      /\ variables[k].defined
                      /\ MatchAt(template, Placeholder(variables[k].key), i)}
       IN IF hits = {}
          THEN <<template[i]>> \o Simultaneous(template, variables, i + 1)
          ELSE LET v == variables[CHOOSE k \in hits : TRUE]
               IN v.value \o Simultaneous(template, variables,
                                           i + Len(Placeholder(v.key)))

\* the character occurs in the value of a defined variable
InValues(variables, char) ==
  \E k \in DOMAIN variables :
    /\ variables[k].defined
    /\ \E j \in DOMAIN variables[k].value : variables[k].value[j] = char

\* the entries of the object in the opposite order
Reversed(variables) ==
  [k \in DOMAIN variables |-> variables[Len(variables) + 1 - k]]

\* C24 as claimed: applyTemplateVariables returns the template with every
\* occurrence of the placeholder of a defined variable replaced by exactly
\* the text of its value, and the placeholders of undefined variables left
\* as they are.  (Stated for values that hold no brace, so that no value
\* brings a placeholder with it, which is the matter of C25.)
C24_PlaceholdersReplacedByValue ==
  (result.done /\ arg.fn = "applyTemplateVariables"
     /\ ~InValues(arg.variables, "{")) =>
    result.value = Simultaneous(arg.template, arg.variables, 1)

\* C25 as claimed: the result of applyTemplateVariables is the same when the
\* variables are substituted in the opposite order, and it is the
\* simultaneous substitution: a placeholder inside a substituted value is
\* not substituted.  (Stated for values that hold no dollar sign, which is
\* the matter of C24.)
C25_SubstitutionOrderIndependent ==
  (result.done /\ arg.fn = "applyTemplateVariables"
     /\ ~InValues(arg.variables, "$")) =>
    /\ result.value =
         applyTemplateVariables(arg.template, Reversed(arg.variables))
    /\ result.value = Simultaneous(arg.template, arg.variables, 1)

\* the directory with segments inner is the directory with segments outer or
\* lies below it
Within(outer, inner) ==
  /\ Len(outer) <= Len(inner)
  /\ \A i \in DOMAIN outer : inner[i] = outer[i]

\* C26 as claimed: validateFilePath(root, p) is true exactly when p is not
\* absolute and p resolved against root, with its . and .. segments
\* normalized, is root or lies below root.
C26_ValidIffRelativeAndWithinRoot ==
  (result.done /\ arg.fn = "validateFilePath") =>
    (result.value <=>
       /\ ~isAbsolute(arg.path)
       /\ Within(ResolvedSegments(arg.root, <<>>),
                 ResolvedSegments(arg.root, arg.path)))

\* the last call was a call of write_file or write_batch_files with a live
\* token
WroteThroughToken ==
  last.op \in {"write_file", "write_batch_files"} /\ last.dir # NoPath

\* the indexes of the paths of the last call that fail validateFilePath
\* against the working directory of its token
InvalidPaths ==
  {i \in DOMAIN last.steps :
     ~validateFilePath(DirText(last.dir), last.steps[i])}

\* the indexes of the path-traversal failures in the results of a
\* write_batch_files response
TraversalFailures ==
  {j \in DOMAIN response.text :
     \E i \in DOMAIN last.steps : response.text[j] = Invalid(last.steps[i])}

\* the handlers wrote nowhere but inside the working directory of the token,
\* and wrote no file for a path that fails validateFilePath
WritesStayInside ==
  /\ \A k \in DOMAIN written :
       Within(ResolvedSegments(DirText(last.dir), <<>>),
              ResolvedSegments(written[k], <<>>))
  /\ \A i \in InvalidPaths :
       \A k \in DOMAIN written :
         written[k] # resolve(DirText(last.dir), last.steps[i])

\* C27 as claimed: every path that fails validateFilePath has a
\* path-traversal failure of its own in the response and no file is written
\* for it, so that every file written lies in the working directory of the
\* token.
C27_EveryInvalidPathHasItsFailure ==
  WroteThroughToken =>
    /\ WritesStayInside
    /\ (last.op = "write_file" /\ InvalidPaths # {}) =>
         /\ response.isError
         /\ response.text = <<"Error: Invalid file path", last.steps[1],
                              "path traversal attempt detected">>
    /\ last.op = "write_batch_files" =>
         Cardinality(TraversalFailures) = Cardinality(InvalidPaths)

\* C27, amended: no file is written for a path that fails validateFilePath
\* and every file written lies in the working directory of the token;
\* write_file answers such a path with the path-traversal error;
\* write_batch_files lists a path-traversal failure for every such path when
\* stopOnError is false, and when stopOnError is true it returns at the
\* first such path, with isError and the failure of that path alone.
C27_InvalidPathsAreNeverWritten ==
  WroteThroughToken =>
    /\ WritesStayInside
    /\ (last.op = "write_file" /\ InvalidPaths # {}) =>
         /\ response.isError
         /\ response.text = <<"Error: Invalid file path", last.steps[1],
                              "path traversal attempt detected">>
    /\ (last.op = "write_batch_files" /\ ~last.threw) =>
         Cardinality(TraversalFailures) = Cardinality(InvalidPaths)
    /\ (last.op = "write_batch_files" /\ last.threw /\ InvalidPaths # {}) =>
         /\ response.isError
         /\ written = <<>>
         /\ \E i \in InvalidPaths :
              /\ \A j \in InvalidPaths : i <= j
              /\ response.text = <<Invalid(last.steps[i])>>

\* write_batch_files without stopOnError, on a copied workspace, was given a
\* file of the working directory and a path that leads out of it: it wrote
\* the first and refused the second
C27_Witness ==
  /\ WroteThroughToken
  /\ last.op = "write_batch_files"
  /\ ~last.threw
  /\ last.dir[1] = "tmp"
  /\ last.steps = <<InsidePath, OutsidePath>>
  /\ InvalidPaths = {2}
  /\ written = <<resolve(DirText(last.dir), InsidePath)>>
  /\ Invalid(OutsidePath) \in Range(response.text)

\* C29: when write_batch_files is called with stopOnError = true and a path
\* of its list fails validation, it returns isError = true and has written
\* no file, not even those whose valid paths come before the invalid one.
C29_StopOnErrorWritesNothing ==
  (WroteThroughToken /\ last.op = "write_batch_files" /\ last.threw
     /\ InvalidPaths # {}) =>
    /\ response.tool = "write_batch_files"
    /\ response.isError
    /\ written = <<>>

\* write_batch_files with stopOnError was given a valid path followed by an
\* invalid one, and wrote neither
C29_Witness ==
  /\ WroteThroughToken
  /\ last.op = "write_batch_files"
  /\ last.threw
  /\ last.steps = <<InsidePath, OutsidePath>>
  /\ InvalidPaths = {2}
  /\ response.isError
  /\ written = <<>>

\* the k-th thing a call of execute_batch_commands does when it runs its
\* commands one at a time in the order of its list: start 1, end 1, start 2,
\* end 2, ...
InListOrder(k) ==
  <<IF k % 2 = 1 THEN "start" ELSE "end", (k + 1) \div 2>>

\* the call of execute_batch_commands got past the resolution of its token
\* and has returned
BatchCompleted ==
  batch.pc = "done" /\ batch.workingDir # NoPath

\* C30: execute_batch_commands starts its commands in the order of the list
\* and starts a command only when the one before it has ended; with
\* stopOnError no command is started after one that failed; without
\* stopOnError every command of the list has been started, once, when the
\* call returns, whatever failed; and the results are those of the commands
\* in the order of their execution.
C30_OneAtATimeInListOrder ==
  /\ \A k \in DOMAIN batch.events : batch.events[k] = InListOrder(k)
  /\ Len(batch.events) <= 2 * Len(batch.commands)
  /\ batch.stopOnError =>
       \A j \in DOMAIN batch.results :
         ~batch.results[j].success => Len(batch.events) = 2 * j
  /\ (BatchCompleted /\ ~batch.stopOnError) =>
       Len(batch.events) = 2 * Len(batch.commands)
  /\ Len(batch.results) = Len(batch.events) \div 2
  /\ \A j \in DOMAIN batch.results :
       batch.results[j].command = batch.commands[j]
  /\ BatchCompleted =>
       /\ response.tool = "execute_batch_commands"
       /\ response.text = batch.results

\* a call without stopOnError has returned: its first command failed and
\* its second, a different command, ran after it and succeeded
C30_Witness ==
  /\ BatchCompleted
  /\ ~batch.stopOnError
  /\ Len(batch.commands) = 2
  /\ batch.commands[1] # batch.commands[2]
  /\ batch.events = <<<<"start", 1>>, <<"end", 1>>, <<"start", 2>>,
                      <<"end", 2>>>>
  /\ ~batch.results[1].success
  /\ batch.results[2].success

\* the answer of the tool to a token that is not in the session map
Refusal(tool, workspaceToken) ==
  [tool |-> tool, isError |-> TRUE, text |-> InvalidToken(workspaceToken)]

\* C28: a call of execute_command, execute_batch_commands, write_file or
\* write_batch_files with a token that is not in the session map (never
\* issued, closed or evicted) answers with isError = true and the
\* invalid-or-expired-token message, starts no command, writes no file and
\* leaves the session map as it was.
C28_DeadTokenIsRefused ==
  [][(last'.op \in ToolOps /\ last'.tok \notin DOMAIN sessions) =>
       /\ response' = Refusal(last'.op, last'.tok)
       /\ procs' = <<>>
       /\ written' = <<>>
       /\ sessions' = sessions
       /\ disk' = disk
       /\ last'.op = "execute_batch_commands" =>
            /\ batch'.pc = "done"
            /\ batch'.events = <<>>
            /\ ~LoopContinues(batch')]_vars

\* execute_batch_commands has refused a token that had left the session
\* map, while another session was live
C28_Witness ==
  /\ last.op = "execute_batch_commands"
  /\ last.tok \notin DOMAIN sessions
  /\ last.tok \in gone
  /\ DOMAIN sessions # {}
  /\ response = Refusal(last.op, last.tok)

\* the last step returned the response of a tool
Responded ==
  \/ last.op \in {"execute_command", "write_file", "write_batch_files"}
  \/ last.op \in {"execute_batch_commands", "batchEnd"} /\ batch.pc = "done"

\* the token of the call was not in the session map
TokenRefused == last.op \in ToolOps /\ last.dir = NoPath

\* the response that was returned reports a failure: the token was refused,
\* the command failed, the path was refused or the write failed, or an
\* entry of the results of a batch is a failure
ReportsFailure ==
  \/ TokenRefused
  \/ last.op = "execute_command" /\ error # <<>>
  \/ last.op = "write_file" /\ written = <<>>
  \/ /\ last.op = "write_batch_files"
     /\ ~TokenRefused
     /\ \E j \in DOMAIN response.text : ~response.text[j].success
  \/ /\ last.op = "batchEnd"
     /\ \E j \in DOMAIN batch.results : ~batch.results[j].success

\* C31 as claimed: a response carries isError = true exactly when it reports
\* a failure, execute_batch_commands with a failed command and
\* write_batch_files with a failed entry and stopOnError = false included.
C31_IsErrorIffFailureReported ==
  Responded => (response.isError <=> ReportsFailure)

\* C32 as claimed: open_workspace answers with a token and without isError
\* exactly when a workspace of the name is registered and the directory that
\* is its path exists; otherwise it answers with isError and the
\* invalid-or-unregistered message and registers no session.
C32_TokenIffRegisteredAndPathExists ==
  last.op = "open_workspace" =>
    IF /\ getWorkspaceByName(configFile, last.name) # {}
       /\ Registered(last.name).path \in disk
    THEN /\ ~response.isError
         /\ response.text = <<last.tok>>
         /\ last.tok \in DOMAIN sessions
    ELSE /\ response.isError
         /\ response.text = <<"Error: Invalid or unregistered workspace",
                              last.name>>
         /\ last.tok = 0

\* C33 as claimed: getConfig() after saveConfig(c) returns a configuration
\* equal to c, and getWorkspaceByName finds every workspace of c.
C33_GetConfigReturnsWhatWasSaved ==
  (arg.fn = "saveConfig" /\ arg.saved /\ result.done
     /\ last.op = "getConfig") =>
    /\ result.value = arg.config
    /\ result.found = Names(arg.config.workspaces)

\* the entries of the registry: those the configuration file holds, under
\* the key saveConfig writes or the key getConfig reads
Entries ==
  (IF "workspaces" \in DOMAIN configFile THEN Range(configFile.workspaces)
   ELSE {})
    \cup Range(getWorkspaces(configFile))

\* C39 as claimed: after additions and removals from the empty registry, no
\* two entries of the registry have the same name, and every entry has
\* either an image or a container name and not both.
C39_UniqueNamesAndOneTarget ==
  /\ "workspaces" \in DOMAIN configFile =>
       \A i, j \in DOMAIN configFile.workspaces :
         configFile.workspaces[i].name = configFile.workspaces[j].name
           => i = j
  /\ \A w \in Entries :
       ("image" \in DOMAIN w) # ("containerName" \in DOMAIN w)

\* a command of the call of execute_batch_commands has been started and
\* has not ended
InFlight == batch.pc = "running"

\* C34: a close or a sweep that removes the token of a command in flight
\* leaves the call as it is, still awaiting its command; the command of a
\* token that is gone ends as any other, its result is pushed, and the
\* response returns the results to the caller.
C34_EvictionLeavesCommandInFlight ==
  [][/\ (InFlight /\ batch.tok \in DOMAIN sessions
           /\ batch.tok \notin DOMAIN sessions') =>
          batch' = batch
     /\ (InFlight /\ batch.tok \notin DOMAIN sessions /\ batch' # batch) =>
          /\ Len(batch'.results) = Len(batch.results) + 1
          /\ batch'.results[batch.next].command = batch.commands[batch.next]
          /\ batch'.results[batch.next].success = (error' = <<>>)
     /\ (InFlight /\ batch'.pc = "done") =>
          /\ ~response'.isError
          /\ response'.text = batch'.results]_vars

\* the sweep has just removed the token of a command in flight and deleted
\* the temporary directory the command runs in
C34_Witness ==
  /\ InFlight
  /\ last.op = "sweep"
  /\ batch.tok \in gone
  /\ batch.tok \notin DOMAIN sessions
  /\ batch.workingDir[1] = "tmp"
  /\ batch.workingDir \notin disk

\* C35 as claimed: no command is started for a token that has been closed
\* or evicted; a call of execute_batch_commands whose token leaves the map
\* while it is in progress starts none of its remaining commands.
C35_NoCommandStartsAfterClose ==
  [][(Len(batch'.events) = Len(batch.events) + 2
        /\ batch'.events[Len(batch'.events)][1] = "start") =>
       batch.tok \in DOMAIN sessions]_vars

\* the functions that exist for the tests to set a field of a session
TestSetters == {"setIdleTimeout", "setLastAccessTime"}

\* C36: whatever happens but a call of a test setter, a session that stays
\* in the map keeps the workspaceName, workingDir, isTempDir and idleTimeout
\* it was opened with: resolutions, sweeps, opens and closes of other
\* tokens and changes of the registry change at most its lastAccessTime.
C36_SessionFieldsFixedAtOpen ==
  [][last'.op \notin TestSetters =>
       \A t \in DOMAIN sessions \cap DOMAIN sessions' :
         /\ sessions'[t].workspaceName = sessions[t].workspaceName
         /\ sessions'[t].workingDir = sessions[t].workingDir
         /\ sessions'[t].isTempDir = sessions[t].isTempDir
         /\ sessions'[t].idleTimeout = sessions[t].idleTimeout
         /\ DOMAIN sessions'[t] = DOMAIN sessions[t]]_vars

\* a session of launchCopy that was resolved after time had passed is live
\* with the timeout and the temporary directory of its opening, while the
\* registry no longer holds a workspace of its name
C36_Witness ==
  \E t \in DOMAIN sessions :
    /\ sessions[t].workspaceName = "launchCopy"
    /\ sessions[t].idleTimeout = 300000
    /\ sessions[t].isTempDir
    /\ sessions[t].workingDir[1] = "tmp"
    /\ sessions[t].lastAccessTime > 0
    /\ getWorkspaceByName(configFile, "launchCopy") = {}
    /\ last.op \in {"addWorkspace", "removeWorkspace"}

\* the requests after which the HTTP session is still there: GET, and POST
\* with a tool call
Touching == {"GET", "open_workspace", "close_workspace", "execute_command"}

\* the session ids the scavenger closed in the step
Scavenged == http.transports \ http'.transports

\* C37: the transports map and the sessionActivity map hold the same session
\* ids after every initialize, request, scavenge and close; the scavenger
\* closes a session only if now - lastActivity is greater than the idle
\* timeout; a GET or a POST on a known session id leaves its lastActivity at
\* now, and a DELETE, which is touched the same way first, leaves the id in
\* neither map.
C37_ScavengedOnlyPastTimeout ==
  [][/\ http'.transports = DOMAIN http'.sessionActivity
     /\ last'.op = "scavenge" =>
          \A sid \in Scavenged :
            clock - http.sessionActivity[sid] > http.IDLE_TIMEOUT
     /\ (last'.op \in Touching /\ last'.sid \in http.transports) =>
          http'.sessionActivity[last'.sid] = clock
     /\ (last'.op = "DELETE" /\ last'.sid \in http.transports) =>
          /\ last'.sid \notin http'.transports
          /\ last'.sid \notin DOMAIN http'.sessionActivity]_vars

\* the scavenger has closed a session, and has left one whose idle time is
\* exactly the idle timeout
C37_Witness ==
  /\ last.op = "scavenge"
  /\ last.closed # <<>>
  /\ \E sid \in http.transports :
       clock - http.sessionActivity[sid] = http.IDLE_TIMEOUT

\* the steps that end HTTP sessions: the DELETE request and the scavenger
HttpClosers == {"DELETE", "scavenge"}

\* the steps that take a workspace token out of the map
TokenClosers == {"close_workspace", "sweep"}

\* C38: a DELETE request and a run of the scavenger leave the map of the
\* workspace tokens and the directories as they are; a token leaves the map
\* only in a close_workspace call or in the idle sweep of the workspaces;
\* and a live token is accepted by execute_command and by close_workspace
\* in whatever HTTP session the call is made.
C38_TokensOutliveTheirHttpSession ==
  [][/\ last'.op \in HttpClosers => sessions' = sessions /\ disk' = disk
     /\ DOMAIN sessions \ DOMAIN sessions' # {} => last'.op \in TokenClosers
     /\ (/\ last'.op = "execute_command"
         /\ last'.sid \in http.transports
         /\ last'.tok \in DOMAIN sessions) =>
          /\ response'.tool = "execute_command"
          /\ ~response'.isError
     /\ (/\ last'.op = "close_workspace"
         /\ last'.sid \in http.transports
         /\ last'.tok \in DOMAIN sessions) =>
          /\ response'.tool = "close_workspace"
          /\ ~response'.isError
          /\ last'.tok \notin DOMAIN sessions']_vars

\* execute_command has run with a live token whose workspace was opened in
\* an HTTP session that is closed since, so that the call was made in
\* another session; the temporary directory of the token is still there
C38_Witness ==
  /\ last.op = "execute_command"
  /\ last.ok
  /\ last.tok \in DOMAIN sessions
  /\ last.tok \in DOMAIN http.openedBy
  /\ http.openedBy[last.tok] \notin http.transports
  /\ last.sid \in http.transports
  /\ sessions[last.tok].isTempDir
  /\ sessions[last.tok].workingDir \in disk

====
